---- MODULE Spec2Model ----
(***************************************************************************)
(* A model of the trust-verification core of did-core-sdk:                 *)
(*   - canonicalize           (crypto/index.ts)                            *)
(*   - didWebToUrl, didWeb.resolve and DidCache (did/didWeb.ts, didCache)  *)
(*   - createVC, createDelegatedVC, verifyVC     (vc/index.ts)             *)
(*   - getPublickeyIssuerFromVC, revokeVC        (vc/index.ts)             *)
(*   - isRevokedFromServiceEndpoint              (vc/revoke.ts)            *)
(*   - createVP, verifyVP                        (vp/index.ts)             *)
(*                                                                         *)
(* JavaScript values are modelled as trees:                                *)
(*   [t |-> "str", v |-> s]        a string                                *)
(*   [t |-> "num", v |-> s]        a number, v its decimal text            *)
(*   [t |-> "null"]                null                                    *)
(*   [t |-> "undef"]               undefined (the result of a missing      *)
(*                                 property, never stored in a tree)       *)
(*   [t |-> "obj", id |-> n, props |-> <<[k |-> key, v |-> value], ...>>]  *)
(*                                 an object, props in insertion order     *)
(*   [t |-> "arr", id |-> n, elems |-> <<value, ...>>]   an array          *)
(*   [t |-> "ref", id |-> n]       a reference back to the enclosing       *)
(*                                 object whose id is n (a cycle)          *)
(* id is the object's identity: 0 for an object referenced from one place  *)
(* only, n > 0 for an object referenced from several places, which then    *)
(* occurs in the tree once per reference, each time with the same id.      *)
(***************************************************************************)
EXTENDS Integers, Sequences, FiniteSets, TLC

VARIABLES
    cA, cB,           \* canonicalize: two values, cB a rearrangement of cA
    cOutA, cOutB,     \* canonicalize: the outcome for cA and for cB
    uAtoms,           \* didWebToUrl: the identifier as written, piece by piece
    uDid,             \* didWebToUrl: the DID, a sequence of characters
    uOut,             \* didWebToUrl: the outcome and the protocol asked for
    wNow,             \* did:web: Date.now()
    wFetchFn,         \* did:web: whether globalThis.fetch exists
    wCache,           \* did:web: DidCache.cache, DID -> <<>> or <<entry>>
    wCalls,           \* did:web: the resolve calls, each with its position
    wStored,          \* did:web: per DID, the last document stored and when
    wLast,            \* did:web: the outcome of the call that finished last
    vNow,             \* credentials: Date.now(), in days
    vBits,            \* credentials: per holder, the revocation bitmap published
    vVc,              \* credentials: the credential at hand
    vMade,            \* credentials: how the credential at hand came about
    vOut,             \* credentials: the outcome of the last creation
    vRes,             \* credentials: the outcome of verifyVC
    vSteps,           \* credentials: the outcomes of the steps of that verifyVC
    vChain,           \* credentials: the outcome of getPublickeyIssuerFromVC
    vTrace,           \* credentials: the steps verifyVC ran, in their order
    pVp,              \* presentations: the presentation at hand
    pMade,            \* presentations: how the presentation at hand came about
    pRes,             \* presentations: the outcome of verifyVP
    rLog,             \* revocation: the calls of the DID method's revoke so far
    rOut,             \* revocation: the outcome of the last revokeVC
    bInit,            \* bitmaps: roaringInitPromise
    bCalls,           \* bitmaps: the revocation checks, each with its position
    bHeap,            \* bitmaps: the bitmaps deserialized so far
    bOut              \* bitmaps: the outcome of the check that finished last

canonVars == <<cA, cB, cOutA, cOutB>>
urlVars == <<uAtoms, uDid, uOut>>
webVars == <<wNow, wFetchFn, wCache, wCalls, wStored, wLast>>
vcVars == <<vNow, vBits, vVc, vMade, vOut, vRes, vSteps, vChain, vTrace>>
vpVars == <<pVp, pMade, pRes>>
bitVars == <<bInit, bCalls, bHeap, bOut>>
revVars == <<rLog, rOut, bInit, bCalls, bHeap, bOut>>
vars == <<cA, cB, cOutA, cOutB, uAtoms, uDid, uOut,
          wNow, wFetchFn, wCache, wCalls, wStored, wLast,
          vNow, vBits, vVc, vMade, vOut, vRes, vSteps, vChain, vTrace,
          pVp, pMade, pRes, rLog, rOut, bInit, bCalls, bHeap, bOut>>

(***************************************************************************)
(* JavaScript values                                                       *)
(***************************************************************************)
Str(s) == [t |-> "str", v |-> s]
Num(s) == [t |-> "num", v |-> s]
Null == [t |-> "null"]
Undefined == [t |-> "undef"]
Obj(i, ps) == [t |-> "obj", id |-> i, props |-> ps]
Arr(i, es) == [t |-> "arr", id |-> i, elems |-> es]
Ref(i) == [t |-> "ref", id |-> i]
P(key, val) == [k |-> key, v |-> val]

\* typeof value === "object" && value !== null
IsObject(x) == x.t \in {"obj", "arr", "ref"}

\* The decimal text of the array indices the model uses.
IndexRange == 0 .. 12
IndexTexts == {ToString(n) : n \in IndexRange}
IndexOfText == [key \in IndexTexts |-> CHOOSE n \in IndexRange : ToString(n) = key]
IsIndexKey(key) == key \in IndexTexts
IndexOf(key) == IndexOfText[key]

\* Every property key of the model in UTF-16 code unit order, the order of
\* Array.prototype.sort() without a comparator.
KeyOrder ==
    << "0", "1", "10", "2", "9", "a", "b", "context", "created",
       "credentialStatus", "credentialSubject", "expirationDate", "id",
       "issuanceDate", "issuer", "jws", "length", "parentVC", "proof",
       "proofPurpose", "revocationBitmapIndex", "roles", "subject", "type",
       "verificationMethod", "x", "y" >>
RankOf ==
    [key \in {KeyOrder[i] : i \in 1 .. Len(KeyOrder)} |->
        CHOOSE i \in 1 .. Len(KeyOrder) : KeyOrder[i] = key]
Rank(key) == RankOf[key]

SeqToSet(s) == {s[i] : i \in 1 .. Len(s)}

\* keys.sort(): the strings of a set, ascending in code unit order.
SortKeys(S) == SelectSeq(KeyOrder, LAMBDA key : key \in S)

\* The integer-like keys of a set in ascending numeric order.
RECURSIVE SortIndexKeys(_)
SortIndexKeys(S) ==
    IF S = {} THEN <<>>
    ELSE LET m == CHOOSE a \in S : \A b \in S : IndexOf(a) <= IndexOf(b)
         IN  <<m>> \o SortIndexKeys(S \ {m})

PropKeys(ps) == [i \in 1 .. Len(ps) |-> ps[i].k]

FilterSeq(s, keep) == SelectSeq(s, LAMBDA e : e \in keep)

RECURSIVE IndexKeys(_)
IndexKeys(n) == IF n = 0 THEN <<>> ELSE IndexKeys(n - 1) \o <<ToString(n - 1)>>

\* Object.keys(x): the own enumerable keys in the engine's order, integer-like
\* keys first in ascending numeric order, then the others in insertion order.
OwnKeys(x) ==
    IF x.t = "arr" THEN IndexKeys(Len(x.elems))
    ELSE IF x.t = "obj" THEN
        LET ks == PropKeys(x.props)
            ix == {key \in SeqToSet(ks) : IsIndexKey(key)}
        IN  IF ix = {} THEN ks
            ELSE SortIndexKeys(ix) \o FilterSeq(ks, SeqToSet(ks) \ ix)
    ELSE <<>>

HasOwn(x, key) ==
    IF x.t = "obj" THEN \E i \in 1 .. Len(x.props) : x.props[i].k = key
    ELSE x.t = "arr" /\ IsIndexKey(key) /\ IndexOf(key) < Len(x.elems)

\* key in x
HasKey(x, key) == HasOwn(x, key) \/ (x.t = "arr" /\ key = "length")

\* x[key]
Get(x, key) ==
    IF x.t = "obj" THEN
        LET own == SelectSeq(x.props, LAMBDA p : p.k = key)
        IN  IF own = <<>> THEN Undefined ELSE own[1].v
    ELSE IF x.t = "arr" /\ HasOwn(x, key) THEN x.elems[IndexOf(key) + 1]
    ELSE IF x.t = "arr" /\ key = "length" THEN Num(ToString(Len(x.elems)))
    ELSE Undefined

\* x[key] = val on an object: an existing key keeps its place.
SetProp(x, key, val) ==
    IF HasOwn(x, key)
    THEN [x EXCEPT !.props =
            [i \in 1 .. Len(x.props) |->
                IF x.props[i].k = key THEN P(key, val) ELSE x.props[i]]]
    ELSE [x EXCEPT !.props = Append(x.props, P(key, val))]

\* a === b
StrictEq(a, b) ==
    /\ a.t = b.t
    /\ IF a.t \in {"obj", "arr"} THEN a.id # 0 /\ a.id = b.id
       ELSE IF a.t = "ref" THEN a.id = b.id
       ELSE a = b

(***************************************************************************)
(* canonicalize (crypto/index.ts)                                          *)
(***************************************************************************)
\* What sorter(value) gives with `seen` the objects visited so far: thrown
\* (Error("Circular reference")), the rebuilt value, and the objects seen.
RECURSIVE sorter(_, _)
RECURSIVE sorterElems(_, _, _)
RECURSIVE sorterProps(_, _, _, _)

\* value.map(sorter), element by element from the left.
sorterElems(elems, seen, acc) ==
    IF elems = <<>> THEN [thrown |-> FALSE, out |-> acc, seen |-> seen]
    ELSE LET r == sorter(Head(elems), seen)
         IN  IF r.thrown THEN [thrown |-> TRUE, out |-> acc, seen |-> r.seen]
             ELSE sorterElems(Tail(elems), r.seen, Append(acc, r.out))

\* for (const k of keys) out[k] = sorter(value[k])
sorterProps(value, keys, seen, out) ==
    IF keys = <<>> THEN [thrown |-> FALSE, out |-> out, seen |-> seen]
    ELSE LET r == sorter(Get(value, Head(keys)), seen)
         IN  IF r.thrown THEN [thrown |-> TRUE, out |-> out, seen |-> r.seen]
             ELSE sorterProps(value, Tail(keys), r.seen, SetProp(out, Head(keys), r.out))

\* Object.keys(value) left in the engine's order.
unsortedKeys(value) == OwnKeys(value)

\* Object.keys(value).sort()
sortedKeys(value) == SortKeys(SeqToSet(OwnKeys(value)))

sorter(value, seen) ==
    IF IsObject(value) THEN
        IF value.id # 0 /\ value.id \in seen
        THEN [thrown |-> TRUE, out |-> value, seen |-> seen]
        ELSE LET seen1 == IF value.id # 0 THEN seen \cup {value.id} ELSE seen
             IN  IF value.t = "arr" THEN
                     LET r == sorterElems(value.elems, seen1, <<>>)
                     IN  [thrown |-> r.thrown, out |-> Arr(0, r.out), seen |-> r.seen]
                 ELSE sorterProps(value, sortedKeys(value), seen1, Obj(0, <<>>))
    ELSE [thrown |-> FALSE, out |-> value, seen |-> seen]

RECURSIVE JoinWith(_, _)
JoinWith(parts, sep) ==
    IF parts = <<>> THEN ""
    ELSE IF Len(parts) = 1 THEN parts[1]
    ELSE parts[1] \o sep \o JoinWith(Tail(parts), sep)

Quote(s) == "\"" \o s \o "\""

\* JSON.stringify of a value without cycles.
RECURSIVE Stringify(_)
Stringify(x) ==
    IF x.t = "str" THEN Quote(x.v)
    ELSE IF x.t = "num" THEN x.v
    ELSE IF x.t = "arr" THEN
        "[" \o JoinWith([i \in 1 .. Len(x.elems) |-> Stringify(x.elems[i])], ",") \o "]"
    ELSE IF x.t = "obj" THEN
        LET ks == OwnKeys(x)
        IN  "{" \o JoinWith([i \in 1 .. Len(ks) |->
                        Quote(ks[i]) \o ":" \o
                        Stringify(IF ks[i] = x.props[i].k THEN x.props[i].v
                                  ELSE Get(x, ks[i]))], ",") \o "}"
    ELSE "null"

CircularReference == "Circular reference"

\* canonicalize(obj): [ok |-> TRUE, val |-> string] or [ok |-> FALSE, val |-> message]
canonicalize(obj) ==
    LET r == sorter(obj, {})
    IN  IF r.thrown THEN [ok |-> FALSE, val |-> CircularReference]
        ELSE [ok |-> TRUE, val |-> Stringify(r.out)]

(***************************************************************************)
(* canonicalize applied to bounded values and to rearrangements of them    *)
(***************************************************************************)
MaxProps == 2
MaxElems == 2

CanonLeaves == {Str("x"), Num("1")}
NestedKeys == {"b", "10", "9"}
TopKeys == {"a", "b"}

\* The sequences of at most n properties with distinct keys of K, values of V.
RECURSIVE PropSeqs(_, _, _)
PropSeqs(K, V, n) ==
    IF n = 0 \/ K = {} THEN {<<>>}
    ELSE {<<>>} \cup
         UNION {{<<P(key, val)>> \o rest : rest \in PropSeqs(K \ {key}, V, n - 1)} :
                    <<key, val>> \in K \X V}

RECURSIVE Seqs(_, _)
Seqs(V, n) ==
    IF n = 0 THEN {<<>>}
    ELSE {<<>>} \cup {<<val>> \o rest : <<val, rest>> \in V \X Seqs(V, n - 1)}

NestedObjs == {Obj(0, ps) : ps \in PropSeqs(NestedKeys, {Str("x")}, MaxProps)}
NestedArrs == {Arr(0, es) : es \in Seqs(CanonLeaves, MaxElems)}
\* Values without any object referenced twice.
TopPlain ==
    {Obj(0, ps) : ps \in PropSeqs(TopKeys, CanonLeaves \cup NestedObjs \cup NestedArrs,
                                  MaxProps)}
    \cup {Arr(0, es) :
            es \in Seqs(CanonLeaves \cup {n \in NestedObjs : Len(n.props) = 1}, MaxElems)}
\* Values that contain themselves, directly or through a nested object or array.
TopCyclic ==
    {x \in {Obj(1, ps) :
                ps \in PropSeqs(TopKeys,
                                CanonLeaves \cup {Ref(1), Arr(0, <<Ref(1)>>)}
                                  \cup {Obj(0, <<P(key, Ref(1))>>) : key \in NestedKeys},
                                MaxProps)} :
        \E i \in 1 .. Len(x.props) : x.props[i].v \notin CanonLeaves}
    \cup {Arr(1, <<Ref(1)>>), Arr(1, <<Str("x"), Ref(1)>>)}
\* Values without a cycle in which one object is referenced from two places.
TopShared ==
    UNION {{Obj(0, <<P("a", s), P("b", s)>>), Arr(0, <<s, s>>),
             Obj(0, <<P("a", s), P("b", Arr(0, <<s>>))>>)} :
            s \in {Obj(2, n.props) : n \in {m \in NestedObjs : Len(m.props) = 1}}}
CanonInputs == TopPlain \cup TopCyclic \cup TopShared

NotRun == [ok |-> FALSE, val |-> "not run"]
NoSteps == <<>>

CanonIdle == cA = Null /\ cB = Null /\ cOutA = NotRun /\ cOutB = NotRun
UrlNotRun == [ok |-> FALSE, val |-> "not run", protocol |-> ""]
UrlIdle == uAtoms = <<>> /\ uDid = <<>> /\ uOut = UrlNotRun
WebIdle ==
    /\ wNow = 0 /\ wFetchFn = FALSE /\ wCache = <<>> /\ wCalls = <<>>
    /\ wStored = <<>> /\ wLast = <<>>
VcIdle ==
    /\ vNow = 0 /\ vBits = <<>> /\ vVc = [t |-> "undef"] /\ vMade = <<>>
    /\ vOut = NotRun /\ vRes = NotRun /\ vSteps = NoSteps /\ vChain = NotRun
    /\ vTrace = NoSteps
VpIdle == pVp = [t |-> "undef"] /\ pMade = <<>> /\ pRes = NotRun
BitIdle == bInit = "" /\ bCalls = <<>> /\ bHeap = <<>> /\ bOut = NotRun
RevIdle == rLog = <<>> /\ rOut = NotRun /\ BitIdle

\* s with the elements at i and i + 1 exchanged.
SwapAt(s, i) ==
    [j \in 1 .. Len(s) |-> IF j = i THEN s[i + 1] ELSE IF j = i + 1 THEN s[i] ELSE s[j]]

\* The same object or array with two neighbouring entries exchanged.
Rearranged(x, i) ==
    IF x.t = "obj" THEN [x EXCEPT !.props = SwapAt(x.props, i)]
    ELSE [x EXCEPT !.elems = SwapAt(x.elems, i)]

Size(x) == IF x.t = "obj" THEN Len(x.props) ELSE IF x.t = "arr" THEN Len(x.elems) ELSE 0

\* x with its j-th entry's value replaced.
WithEntry(x, j, val) ==
    IF x.t = "obj" THEN [x EXCEPT !.props[j].v = val] ELSE [x EXCEPT !.elems[j] = val]
Entry(x, j) == IF x.t = "obj" THEN x.props[j].v ELSE x.elems[j]

CanonInit ==
    /\ cA \in CanonInputs
    /\ cB = cA
    /\ cOutA = NotRun
    /\ cOutB = NotRun
    /\ UrlIdle
    /\ WebIdle
    /\ VcIdle
    /\ VpIdle
    /\ RevIdle

\* The caller builds the same object with two keys inserted in the other order.
ReorderKeys ==
    /\ cOutA = NotRun
    /\ \/ \E i \in 1 .. Size(cB) - 1 :
            /\ cB.t = "obj"
            /\ cB' = Rearranged(cB, i)
       \/ \E j \in 1 .. Size(cB) : \E i \in 1 .. Size(Entry(cB, j)) - 1 :
            /\ Entry(cB, j).t = "obj"
            /\ cB' = WithEntry(cB, j, Rearranged(Entry(cB, j), i))
    /\ UNCHANGED <<cA, cOutA, cOutB, urlVars, webVars, vcVars, vpVars, revVars>>

\* The caller builds an array with two elements in the other order.
ReorderElems ==
    /\ cOutA = NotRun
    /\ \/ \E i \in 1 .. Size(cB) - 1 :
            /\ cB.t = "arr"
            /\ cB' = Rearranged(cB, i)
       \/ \E j \in 1 .. Size(cB) : \E i \in 1 .. Size(Entry(cB, j)) - 1 :
            /\ Entry(cB, j).t = "arr"
            /\ cB' = WithEntry(cB, j, Rearranged(Entry(cB, j), i))
    /\ UNCHANGED <<cA, cOutA, cOutB, urlVars, webVars, vcVars, vpVars, revVars>>

Canonicalize ==
    /\ cOutA = NotRun
    /\ cOutA' = canonicalize(cA)
    /\ cOutB' = canonicalize(cB)
    /\ UNCHANGED <<cA, cB, urlVars, webVars, vcVars, vpVars, revVars>>

CanonNext == ReorderKeys \/ ReorderElems \/ Canonicalize
SpecCanon == CanonInit /\ [][CanonNext]_vars

\* Logical equality of two values: the same primitives, the same elements in
\* the same order, the same keys with logically equal values.
RECURSIVE LogEq(_, _)
LogEq(a, b) ==
    /\ a.t = b.t
    /\ IF a.t = "arr" THEN
           /\ Len(a.elems) = Len(b.elems)
           /\ \A i \in 1 .. Len(a.elems) : LogEq(a.elems[i], b.elems[i])
       ELSE IF a.t = "obj" THEN
           /\ SeqToSet(PropKeys(a.props)) = SeqToSet(PropKeys(b.props))
           /\ \A i \in 1 .. Len(a.props) :
                 LogEq(a.props[i].v, Get(b, a.props[i].k))
       ELSE a = b

\* The value holds a reference back to an object that encloses it.
RECURSIVE ContainsItself(_)
ContainsItself(x) ==
    \/ x.t = "ref"
    \/ x.t = "arr" /\ \E i \in 1 .. Len(x.elems) : ContainsItself(x.elems[i])
    \/ x.t = "obj" /\ \E i \in 1 .. Len(x.props) : ContainsItself(x.props[i].v)

\* C9: canonicalize gives one string for two values that differ only in the
\* insertion order of object keys (at the top or in a nested object), gives
\* different strings for two values that differ in the order of an array's
\* elements, and throws "Circular reference" for a value that contains itself.
C9_CanonicalizeOrder ==
    cOutA # NotRun =>
        /\ LogEq(cA, cB) => cOutA = cOutB
        /\ (~LogEq(cA, cB) /\ cOutA.ok /\ cOutB.ok) => cOutA.val # cOutB.val
        /\ ContainsItself(cA) => cOutA = [ok |-> FALSE, val |-> CircularReference]

\* canonicalize has run on two values that differ in the insertion order of
\* the keys of a nested object, and has returned a string.
C9_Witness ==
    /\ cOutA.ok
    /\ cA # cB
    /\ LogEq(cA, cB)
    /\ \E j \in 1 .. Size(cA) :
          Entry(cA, j).t = "obj" /\ Entry(cA, j) # Entry(cB, j)

(***************************************************************************)
(* didWebToUrl (did/didWeb.ts)                                             *)
(* A string is a sequence of one-character strings where the code looks    *)
(* inside it (split, the digit test, the percent escapes).                 *)
(***************************************************************************)
RECURSIVE Text(_)
\* The string of a sequence of characters.
Text(cs) == IF cs = <<>> THEN "" ELSE Head(cs) \o Text(Tail(cs))

DidWebPrefix == <<"d", "i", "d", ":", "w", "e", "b", ":">>

\* did.startsWith(prefix)
StartsWith(cs, prefix) ==
    Len(cs) >= Len(prefix) /\ SubSeq(cs, 1, Len(prefix)) = prefix

\* encoded.split(":"), cur the piece being read.
RECURSIVE SplitColon(_, _)
SplitColon(cs, cur) ==
    IF cs = <<>> THEN <<cur>>
    ELSE IF Head(cs) = ":" THEN <<cur>> \o SplitColon(Tail(cs), <<>>)
    ELSE SplitColon(Tail(cs), Append(cur, Head(cs)))

\* /^\d+$/.test(part)
AllDigits(part) ==
    part # <<>> /\ \A i \in 1 .. Len(part) : part[i] \in {"0", "1", "2", "3", "4", "5", "6", "7", "8", "9"}

\* The character of a percent escape %XY below 0x80, over the hexadecimal
\* digits of the model; an escape from 0x80 on is no character by itself.
HexPairs == {<<"3", "3">>, <<"3", "A">>}
EscapeChar(x, y) == IF <<x, y>> = <<"3", "3">> THEN "3" ELSE ":"

URIError == "URI malformed"

\* decodeURIComponent(part)
RECURSIVE decodeURIComponent(_)
decodeURIComponent(cs) ==
    IF cs = <<>> THEN [ok |-> TRUE, val |-> <<>>]
    ELSE IF Head(cs) = "%" THEN
        IF Len(cs) >= 3 /\ <<cs[2], cs[3]>> \in HexPairs THEN
            LET r == decodeURIComponent(SubSeq(cs, 4, Len(cs)))
            IN  IF r.ok THEN [ok |-> TRUE, val |-> <<EscapeChar(cs[2], cs[3])>> \o r.val]
                ELSE r
        ELSE [ok |-> FALSE, val |-> URIError]
    ELSE LET r == decodeURIComponent(Tail(cs))
         IN  IF r.ok THEN [ok |-> TRUE, val |-> <<Head(cs)>> \o r.val] ELSE r

\* The port test of a mutant that takes no component for a port.
noPort(parts) == FALSE

\* parts.length > 1 && /^\d+$/.test(parts[1])
hasPort(parts) == Len(parts) > 1 /\ AllDigits(parts[2])

\* didWebToUrl(did, opts) with protocol = opts?.protocol ?? "https"
didWebToUrl(did, protocol) ==
    IF ~StartsWith(did, DidWebPrefix) THEN [ok |-> FALSE, val |-> "Not a did:web DID"]
    ELSE LET encoded == SubSeq(did, Len(DidWebPrefix) + 1, Len(did))
             parts == SplitColon(encoded, <<>>)
         IN
         IF encoded = <<>> THEN [ok |-> FALSE, val |-> "Invalid did:web (empty identifier)"]
         ELSE IF parts[1] = <<>> THEN [ok |-> FALSE, val |-> "Invalid did:web (missing host)"]
         ELSE
           LET port == hasPort(parts)
               h == decodeURIComponent(parts[1])
               host == IF port THEN Text(h.val) \o ":" \o Text(parts[2]) ELSE Text(h.val)
               pathParts == IF port THEN SubSeq(parts, 3, Len(parts))
                            ELSE SubSeq(parts, 2, Len(parts))
               decoded == [i \in 1 .. Len(pathParts) |-> decodeURIComponent(pathParts[i])]
               path == JoinWith([i \in 1 .. Len(pathParts) |-> Text(decoded[i].val)], "/")
           IN
           IF ~h.ok \/ \E i \in 1 .. Len(pathParts) : ~decoded[i].ok
           THEN [ok |-> FALSE, val |-> URIError]
           ELSE IF path # ""
           THEN [ok |-> TRUE, val |-> protocol \o "://" \o host \o "/" \o path \o "/did.json"]
           ELSE [ok |-> TRUE, val |-> protocol \o "://" \o host \o "/.well-known/did.json"]

(***************************************************************************)
(* didWebToUrl applied to bounded identifiers                              *)
(***************************************************************************)
MaxDidAtoms == 5

\* The pieces an identifier is written with: a letter, a digit, the escapes
\* of ":" and of "3", the separator, and a "%" that starts no escape.
PlainAtoms == {"h", "3"}
EscapeAtoms == {"%3A", "%33"}
Separator == ":"
AtomSet == PlainAtoms \cup EscapeAtoms \cup {Separator, "%"}

\* The characters an atom is written with.
AtomChars(a) ==
    IF a = "%3A" THEN <<"%", "3", "A">>
    ELSE IF a = "%33" THEN <<"%", "3", "3">>
    ELSE <<a>>

RECURSIVE Written(_)
Written(atoms) == IF atoms = <<>> THEN <<>> ELSE AtomChars(Head(atoms)) \o Written(Tail(atoms))

UrlInit ==
    /\ uAtoms \in Seqs(AtomSet, MaxDidAtoms)
    /\ \E prefix \in {DidWebPrefix, <<"d", "i", "d", ":", "k", "e", "y", ":">>} :
          uDid = prefix \o Written(uAtoms)
    /\ uOut = UrlNotRun
    /\ CanonIdle
    /\ WebIdle
    /\ VcIdle
    /\ VpIdle
    /\ RevIdle

DidWebToUrl ==
    /\ uOut = UrlNotRun
    /\ \E protocol \in {"https", "http"} :
          LET r == didWebToUrl(uDid, protocol)
          IN  uOut' = [ok |-> r.ok, val |-> r.val, protocol |-> protocol]
    /\ UNCHANGED <<uAtoms, uDid, canonVars, webVars, vcVars, vpVars, revVars>>

UrlNext == DidWebToUrl
SpecUrl == UrlInit /\ [][UrlNext]_vars

\* What the identifier means, read from the pieces it was written with.
RECURSIVE SplitAtoms(_, _)
SplitAtoms(atoms, cur) ==
    IF atoms = <<>> THEN <<cur>>
    ELSE IF Head(atoms) = Separator THEN <<cur>> \o SplitAtoms(Tail(atoms), <<>>)
    ELSE SplitAtoms(Tail(atoms), Append(cur, Head(atoms)))

AtomMeaning(a) == IF a = "%3A" THEN ":" ELSE IF a = "%33" THEN "3" ELSE a

RECURSIVE Meaning(_)
Meaning(comp) == IF comp = <<>> THEN "" ELSE AtomMeaning(Head(comp)) \o Meaning(Tail(comp))

IsPortComponent(comp) == comp # <<>> /\ \A i \in 1 .. Len(comp) : comp[i] = "3"

UrlComponents == SplitAtoms(uAtoms, <<>>)
UrlHasPort == Len(UrlComponents) > 1 /\ IsPortComponent(UrlComponents[2])
UrlSegments ==
    SubSeq(UrlComponents, IF UrlHasPort THEN 3 ELSE 2, Len(UrlComponents))

RECURSIVE SegmentPath(_)
SegmentPath(segs) ==
    IF segs = <<>> THEN "" ELSE "/" \o Meaning(Head(segs)) \o SegmentPath(Tail(segs))

ExpectedUrl ==
    uOut.protocol \o "://" \o Meaning(UrlComponents[1])
        \o (IF UrlHasPort THEN ":" \o Meaning(UrlComponents[2]) ELSE "")
        \o (IF UrlSegments = <<>> THEN "/.well-known/did.json"
            ELSE SegmentPath(UrlSegments) \o "/did.json")

\* The identifier is a did:web one written with whole escapes only.
UrlWellFormed ==
    /\ StartsWith(uDid, DidWebPrefix)
    /\ \A i \in 1 .. Len(uAtoms) : uAtoms[i] # "%"

cacheTtlMs == 300000
TickMs == 150000
MaxTicks == 3
MaxCalls == 2

WebDid == DidWebPrefix \o <<"h">>
\* An identifier didWebToUrl throws on.
MalformedDid == DidWebPrefix \o <<"%">>
WebDids == {WebDid, MalformedDid}
CallIds == 1 .. MaxCalls

\* The documents and other bodies a server may answer with.
DidDoc(did, rev) == Obj(0, <<P("id", Str(Text(did))), P("a", Str(rev))>>)
Bodies(did) ==
    {DidDoc(did, "x"), DidDoc(did, "y"), DidDoc(<<"o">>, "x"), Str("x"), Null,
     Obj(0, <<P("id", Num("1"))>>), Arr(0, <<Str(Text(did))>>)}

\* !value
Falsy(x) == x.t \in {"undef", "null"} \/ x \in {Str(""), Num("0")}

\* An expiry test of a mutant that drops entries one TTL too late.
CacheGetLate(cache, did, now) ==
    IF cache[did] = <<>> THEN [doc |-> Null, cache |-> cache]
    ELSE IF now > cache[did][1].expires + cacheTtlMs
         THEN [doc |-> Null, cache |-> [cache EXCEPT ![did] = <<>>]]
         ELSE [doc |-> cache[did][1].doc, cache |-> cache]

\* A get of a mutant that does not look at the expiry.
CacheGetStale(cache, did, now) ==
    IF cache[did] = <<>> THEN [doc |-> Null, cache |-> cache]
    ELSE [doc |-> cache[did][1].doc, cache |-> cache]

\* DidCache.get(did): the document or null, and the map afterwards.
CacheGet(cache, did, now) ==
    IF cache[did] = <<>> THEN [doc |-> Null, cache |-> cache]
    ELSE IF now > cache[did][1].expires
         THEN [doc |-> Null, cache |-> [cache EXCEPT ![did] = <<>>]]
         ELSE [doc |-> cache[did][1].doc, cache |-> cache]

\* DidCache.set(did, doc, ttlMs)
CacheSet(cache, did, doc, ttlMs, now) ==
    [cache EXCEPT ![did] = <<[doc |-> doc, expires |-> now + ttlMs]>>]

\* DidCache.delete(did)
CacheDelete(cache, did) == [cache EXCEPT ![did] = <<>>]

\* DidCache.clear()
CacheClear(cache) == [did \in DOMAIN cache |-> <<>>]

Idle == [pc |-> "idle"]
NotFinished == [did |-> <<>>, fetches |-> <<>>, ok |-> FALSE, val |-> Null,
                within |-> FALSE, first |-> FALSE, held |-> Null]

\* A document stored for the DID is younger than the TTL.
WithinTtl(did) == wStored[did] # <<>> /\ wNow < wStored[did][1].at + cacheTtlMs

\* No call has started yet since the TTL of the stored document elapsed.
FirstAfterTtl(did) ==
    /\ wStored[did] # <<>>
    /\ wNow > wStored[did][1].at + cacheTtlMs
    /\ ~wStored[did][1].refetched

\* A call that awaits: its position, its DID, the URLs it has fetched and
\* whether it was the first call to start after the TTL had elapsed.
Awaiting(pc, did, fetches, first) ==
    [pc |-> pc, did |-> did, fetches |-> fetches, first |-> first]

\* The outcome of a call that ends in its first step.
Ended(did, ok, val) ==
    [did |-> did, fetches |-> <<>>, ok |-> ok, val |-> val,
     within |-> WithinTtl(did), first |-> FirstAfterTtl(did),
     held |-> IF wStored[did] = <<>> THEN Null ELSE wStored[did][1].doc]

\* The outcome of a call that ends after an await.
Done(call, ok, val) ==
    [did |-> call.did, fetches |-> call.fetches, ok |-> ok, val |-> val,
     within |-> FALSE, first |-> call.first, held |-> Null]

NoteStart(did) ==
    IF wStored[did] # <<>> /\ wNow > wStored[did][1].at + cacheTtlMs
    THEN [wStored EXCEPT ![did] = <<[@[1] EXCEPT !.refetched = TRUE]>>]
    ELSE wStored

WebInit ==
    /\ wNow = 0
    /\ wFetchFn \in BOOLEAN
    /\ wCache = [did \in WebDids |-> <<>>]
    /\ wCalls = [c \in CallIds |-> Idle]
    /\ wStored = [did \in WebDids |-> <<>>]
    /\ wLast = NotFinished
    /\ CanonIdle
    /\ UrlIdle
    /\ VcIdle
    /\ VpIdle
    /\ RevIdle

\* resolve(did) up to its first await: the fetch check, the cache, the https
\* URL and, if that throws, the http URL.
Resolve(c, did) ==
    /\ wCalls[c].pc = "idle"
    /\ LET hit == CacheGet(wCache, did, wNow)
           https == didWebToUrl(did, "https")
           http == didWebToUrl(did, "http")
       IN  /\ wStored' = NoteStart(did)
           /\ IF ~wFetchFn THEN
                 /\ wLast' = Ended(did, FALSE, Str("Global fetch is not available."))
                 /\ UNCHANGED <<wCalls, wCache>>
              ELSE IF ~Falsy(hit.doc) THEN
                 /\ wLast' = Ended(did, TRUE, hit.doc)
                 /\ wCache' = hit.cache
                 /\ UNCHANGED wCalls
              ELSE IF https.ok THEN
                 /\ wCalls' = [wCalls EXCEPT ![c] =
                        Awaiting("https", did, <<https.val>>, FirstAfterTtl(did))]
                 /\ wCache' = hit.cache
                 /\ UNCHANGED wLast
              ELSE IF http.ok THEN
                 /\ wCalls' = [wCalls EXCEPT ![c] =
                        Awaiting("http", did, <<http.val>>, FirstAfterTtl(did))]
                 /\ wCache' = hit.cache
                 /\ UNCHANGED wLast
              ELSE
                 /\ wLast' = Ended(did, FALSE, Str(http.val))
                 /\ wCache' = hit.cache
                 /\ UNCHANGED wCalls
    /\ UNCHANGED <<wNow, wFetchFn, canonVars, urlVars, vcVars, vpVars, revVars>>

\* A response has arrived: if (!res.ok) throw ...; otherwise await res.json().
Responded(c, resOk) ==
    IF resOk
    THEN wCalls' = [wCalls EXCEPT ![c].pc = "json"] /\ UNCHANGED wLast
    ELSE /\ wLast' = Done(wCalls[c], FALSE, Str("did:web resolve failed"))
         /\ wCalls' = [wCalls EXCEPT ![c] = Idle]

\* The https fetch settles: with a response, or by throwing (a network
\* error, the abort of the timeout), which starts the http fetch.
HttpsSettles(c) ==
    /\ wCalls[c].pc = "https"
    /\ \/ \E resOk \in BOOLEAN : Responded(c, resOk)
       \/ LET http == didWebToUrl(wCalls[c].did, "http")
          IN  /\ wCalls' = [wCalls EXCEPT ![c] =
                    [@ EXCEPT !.pc = "http", !.fetches = Append(@, http.val)]]
              /\ UNCHANGED wLast
    /\ UNCHANGED <<wNow, wFetchFn, wCache, wStored, canonVars, urlVars, vcVars, vpVars, revVars>>

\* An http fetch of a mutant that is tried once more when it throws.
HttpRetried(c) ==
    /\ wCalls[c].pc = "http"
    /\ \/ \E resOk \in BOOLEAN : Responded(c, resOk)
       \/ IF Len(wCalls[c].fetches) < 3
          THEN /\ wCalls' = [wCalls EXCEPT ![c].fetches =
                        Append(@, didWebToUrl(wCalls[c].did, "http").val)]
               /\ UNCHANGED wLast
          ELSE /\ wLast' = Done(wCalls[c], FALSE, Str("fetch failed"))
               /\ wCalls' = [wCalls EXCEPT ![c] = Idle]
    /\ UNCHANGED <<wNow, wFetchFn, wCache, wStored, canonVars, urlVars, vcVars, vpVars, revVars>>

\* The http fetch settles: with a response, or by throwing out of resolve.
HttpSettles(c) ==
    /\ wCalls[c].pc = "http"
    /\ \/ \E resOk \in BOOLEAN : Responded(c, resOk)
       \/ /\ wLast' = Done(wCalls[c], FALSE, Str("fetch failed"))
          /\ wCalls' = [wCalls EXCEPT ![c] = Idle]
    /\ UNCHANGED <<wNow, wFetchFn, wCache, wStored, canonVars, urlVars, vcVars, vpVars, revVars>>

\* The checks resolve makes on the parsed body.
IsPayload(doc) ==
    /\ ~Falsy(doc)
    /\ doc.t \in {"obj", "arr"}
    /\ Get(doc, "id").t = "str"
\* The checks of a mutant that does not compare the id with the DID.
AnyIdDoc(doc, did) == IsPayload(doc)
ValidDoc(doc, did) == IsPayload(doc) /\ Get(doc, "id").v = Text(did)

\* res.json() settles: the body is validated, stored and returned.
JsonSettles(c) ==
    /\ wCalls[c].pc = "json"
    /\ wCalls' = [wCalls EXCEPT ![c] = Idle]
    /\ LET did == wCalls[c].did
       IN  \/ /\ wLast' = Done(wCalls[c], FALSE, Str("Unexpected token"))
              /\ UNCHANGED <<wCache, wStored>>
           \/ \E doc \in Bodies(did) :
                IF ValidDoc(doc, did) THEN
                    /\ wCache' = CacheSet(wCache, did, doc, cacheTtlMs, wNow)
                    /\ wStored' = [wStored EXCEPT ![did] =
                            <<[doc |-> doc, at |-> wNow, refetched |-> FALSE,
                               first |-> wCalls[c].first,
                               fetches |-> Len(wCalls[c].fetches)]>>]
                    /\ wLast' = Done(wCalls[c], TRUE, doc)
                ELSE
                    /\ wLast' = Done(wCalls[c], FALSE,
                                     Str(IF IsPayload(doc) THEN "DID doc id mismatch"
                                         ELSE "Invalid DID Document payload"))
                    /\ UNCHANGED <<wCache, wStored>>
    /\ UNCHANGED <<wNow, wFetchFn, canonVars, urlVars, vcVars, vpVars, revVars>>

Tick ==
    /\ wNow < MaxTicks * TickMs
    /\ wNow' = wNow + TickMs
    /\ UNCHANGED <<wFetchFn, wCache, wCalls, wStored, wLast, canonVars, urlVars, vcVars, vpVars, revVars>>

WebNext ==
    \/ \E c \in CallIds, did \in WebDids : Resolve(c, did)
    \/ \E c \in CallIds : HttpsSettles(c) \/ HttpSettles(c) \/ JsonSettles(c)
    \/ Tick
SpecWeb == WebInit /\ [][WebNext]_vars

(***************************************************************************)
(* C8: the cache of did:web resolutions                                    *)
(***************************************************************************)
Finished == wLast # NotFinished
HttpsUrl == didWebToUrl(wLast.did, "https").val
HttpUrl == didWebToUrl(wLast.did, "http").val

\* A call that started while the last stored document was younger than the
\* TTL fetched nothing and returned that document.
WithinTtlNoFetch ==
    (Finished /\ wLast.within) =>
        wLast.fetches = <<>> /\ wLast.ok /\ wLast.val = wLast.held

\* The first call to start after the TTL has elapsed fetched over https and,
\* at most once more, over http.
FirstAfterTtlFetches ==
    (Finished /\ wLast.first) => wLast.fetches \in {<<HttpsUrl>>, <<HttpsUrl, HttpUrl>>}

\* A call that returns a fetched document stores it to expire one TTL later.
StoresWithFreshTtl ==
    \A c \in CallIds :
        (wCalls[c].pc = "json" /\ wCalls'[c].pc = "idle" /\ wLast'.ok) =>
            wCache'[wCalls[c].did] =
                <<[doc |-> wLast'.val, expires |-> wNow + cacheTtlMs]>>

Chars(s) == [i \in 1 .. Len(s) |-> SubSeq(s, i, i)]
Truthy(x) == ~Falsy(x)

\* A string starts with a prefix; what follows the prefix.
HasPrefix(s, prefix) == Len(s) >= Len(prefix) /\ SubSeq(s, 1, Len(prefix)) = prefix
After(s, prefix) == SubSeq(s, Len(prefix) + 1, Len(s))

\* The Ed25519 key pair of a holder as JWKs; x names the pair.
PrivateJwk(name) == [kty |-> "OKP", crv |-> "Ed25519", x |-> name, d |-> "d/" \o name]
PublicJwk(name) == [kty |-> "OKP", crv |-> "Ed25519", x |-> name, d |-> ""]

\* subtle.sign and subtle.verify for Ed25519: the signature is a function of
\* the key pair and the message, and verifies under that pair and message only.
SubtleSign(priv, msg) == "sig/" \o priv.x \o "/" \o msg
SubtleVerify(pub, sig, data) == sig = "sig/" \o pub.x \o "/" \o data

NotImplemented == "Unsupported algorithm: ES256"
InvalidKeyMaterial == "Private JWK must be an OKP/Ed25519 key with 'd'."

\* sign(_data, _priv, _alg), _alg a JavaScript value
sign(data, priv, alg) ==
    IF alg.t \in {"undef", "null"} \/ alg = Str("Ed25519") THEN
        IF priv.kty # "OKP" \/ priv.crv # "Ed25519" \/ priv.d = ""
        THEN [ok |-> FALSE, val |-> InvalidKeyMaterial]
        ELSE [ok |-> TRUE, val |-> SubtleSign(priv, data)]
    ELSE [ok |-> FALSE, val |-> NotImplemented]

\* verify(_data, _sig, _pub, _alg), _alg "Ed25519" or "ES256"
verify(data, sig, pub, alg) ==
    IF alg = "Ed25519" THEN
        IF pub.kty # "OKP" \/ pub.crv # "Ed25519" \/ pub.x = ""
        THEN [ok |-> FALSE, val |-> "Invalid Ed25519 public JWK"]
        ELSE [ok |-> TRUE, val |-> SubtleVerify(pub, sig, data)]
    ELSE [ok |-> FALSE, val |-> NotImplemented]

\* The base64url text of a buffer and the buffer of a base64url text: the
\* text of a buffer decodes to that buffer, any other text to other bytes.
Base64uMark == "b64u:"
arrBuftobase64u(buf) == Base64uMark \o buf
b64uToArrBuf(b64url) ==
    IF HasPrefix(b64url, Base64uMark) THEN After(b64url, Base64uMark)
    ELSE "bytes/" \o b64url

\* algFromProofType(proofType), proofType a JavaScript value
algFromProofType(proofType) ==
    IF proofType = Str("Ed25519Signature2020") \/ Falsy(proofType)
    THEN "Ed25519" ELSE "ES256"

REVOCATION_FRAGMENT == "#revocation"
REVOCATION_TYPE == "RevocationBitmap2022"
EndpointPrefix == "data:application/octet-stream;base64,"

\* The payload of a revocation service endpoint: one character per index
\* from 0 to MaxBit, "1" for an index in the bitmap.
MaxBit == 6
RECURSIVE BitString(_, _)
BitString(bits, i) ==
    IF i > MaxBit THEN ""
    ELSE (IF i \in bits THEN "1" ELSE "0") \o BitString(bits, i + 1)

\* isRevokedFromServiceEndpoint(serviceEndpoint, index)
isRevokedFromServiceEndpoint(serviceEndpoint, index) ==
    IF ~HasPrefix(serviceEndpoint, EndpointPrefix)
    THEN [ok |-> FALSE, val |-> "serviceEndpoint format", revoked |-> FALSE]
    ELSE LET base64 == After(serviceEndpoint, EndpointPrefix)
         IN  IF base64 = ""
             THEN [ok |-> FALSE, val |-> "serviceEndpoint payload", revoked |-> FALSE]
             ELSE [ok |-> TRUE, val |-> "",
                   revoked |-> index + 1 <= Len(base64)
                               /\ SubSeq(base64, index + 1, index + 1) = "1"]

\* The holders of the model, their DIDs and the documents they publish: one
\* verification method #keys-1 and one revocation service each.
DidA == "did:web:a"
DidB == "did:web:b"
DidC == "did:web:c"
Dids == {DidA, DidB, DidC}

BitmapEndpoint(bits) == EndpointPrefix \o BitString(bits, 0)

DidDocument(did, bits) ==
    [id |-> did,
     verificationMethod |-> <<[id |-> did \o "#keys-1", publicKeyJwk |-> PublicJwk(did)]>>,
     service |-> <<[id |-> did \o REVOCATION_FRAGMENT, type |-> REVOCATION_TYPE,
                    serviceEndpoint |-> BitmapEndpoint(bits)]>>]

UnknownDidMethod == "No resolver registered for did:"
UnresolvableIssuer == "did:web resolve failed"

\* resolveDid(did) with bitmaps[d] the revocation bitmap holder d publishes.
resolveDid(did, bitmaps) ==
    LET parts == SplitColon(Chars(did), <<>>)
        m == IF Len(parts) >= 2 THEN Text(parts[2]) ELSE "undefined"
    IN  IF m \notin {"key", "web", "iota"}
        THEN [ok |-> FALSE, val |-> UnknownDidMethod \o m]
        ELSE IF did \in DOMAIN bitmaps
             THEN [ok |-> TRUE, val |-> DidDocument(did, bitmaps[did])]
             ELSE [ok |-> FALSE, val |-> UnresolvableIssuer]

\* new Date(t).toISOString() and new Date(text).getTime(), time counted in
\* days from 2026-01-01; a text that is no date gives NaN.
TimeRange == 0 .. 8
toISOString(t) == "2026-01-0" \o ToString(t + 1) \o "T00:00:00.000Z"
getTime(text) ==
    IF \E t \in TimeRange : toISOString(t) = text
    THEN [nan |-> FALSE, t |-> CHOOSE t \in TimeRange : toISOString(t) = text]
    ELSE [nan |-> TRUE, t |-> 0]

(***************************************************************************)
(* The credential engine (vc/index.ts)                                     *)
(***************************************************************************)
ProofMissing == "Verify Credential: Proof is empty"
KeyNotFound == "Verify Credential: Can't find public key from verification method"
SignatureInvalid == "Verify Credential: Proof is invalid"
Revoked == "Verify Credential: VC is revoked"
Expired == "Verify Credential: Credential is expired"
NotYetValid == "Verify Credential: Credential is valid in future"
ParentInvalid == "Verify Credential: Parent Credential is not issued for holder"
ParentVcInvalid == "Verify Credential: Parent Credential is invalid"
ScopeViolation == "Parent VC's credentialSubject must contains all info for claims"
ParentRequired == "Parent VC is required"
ParentProofMissing == "Parent VC must have a proof to allow delegation"
\* The next three messages are written here without their diacritics.
StatusTypeInvalid == "VC khong dung RevocationBitmap2022"
StatusIndexInvalid == "revocationBitmapIndex khong hop le"
RevocationServiceNotFound == "Khong tim thay RevocationBitmap service "
TypeError == "TypeError"

\* An outcome: a throw with its message, or a return.
Thrown(message) == [ok |-> FALSE, val |-> message]
Ok == [ok |-> TRUE, val |-> "true"]

\* A number that is an integer >= 0, and its value.
IsIndex(x) == x.t = "num" /\ IsIndexKey(x.v)

\* { ...target, ...source }
RECURSIVE SpreadKeys(_, _, _)
SpreadKeys(target, source, keys) ==
    IF keys = <<>> THEN target
    ELSE SpreadKeys(SetProp(target, Head(keys), Get(source, Head(keys))), source, Tail(keys))
Spread(target, source) == SpreadKeys(target, source, OwnKeys(source))

\* An object literal whose optional entries are left out when undefined.
RECURSIVE Defined(_)
Defined(ps) ==
    IF ps = <<>> THEN <<>>
    ELSE (IF Head(ps).v.t = "undef" THEN <<>> ELSE <<Head(ps)>>) \o Defined(Tail(ps))

\* [...new Set(elems)]
RECURSIVE Dedupe(_, _)
Dedupe(elems, acc) ==
    IF elems = <<>> THEN acc
    ELSE Dedupe(Tail(elems),
                IF \E i \in 1 .. Len(acc) : acc[i] = Head(elems) THEN acc
                ELSE Append(acc, Head(elems)))

W3cContext == "https://www.w3.org/2018/credentials/v1"

revocationStatus(issuerDid, index) ==
    Obj(0, << P("id", Str(issuerDid \o REVOCATION_FRAGMENT)),
              P("type", Str(REVOCATION_TYPE)),
              P("revocationBitmapIndex", index) >>)

\* ...(revocationBitmapIndex != undefined && revocationBitmapIndex >= 0 && {...})
StatusEntry(did, revocationBitmapIndex) ==
    IF IsIndex(revocationBitmapIndex)
    THEN revocationStatus(did, revocationBitmapIndex) ELSE Undefined

OrElse(value, default) == IF value.t = "undef" THEN default ELSE value

\* createVC(params, issuerPrivateKeyJwk) at time now: the credential, or
\* what it throws; signs counts the calls of sign.
createVC(params, issuerPrivateKeyJwk, now) ==
    LET type == OrElse(params.type, Arr(0, <<Str("VerifiableCredential")>>))
        context == OrElse(params.context, Arr(0, <<Str(W3cContext)>>))
        issuanceDate == OrElse(params.issuanceDate, Str(toISOString(now)))
        vc == Obj(0, Defined(<<
                P("context", context),
                P("type", type),
                P("issuer", params.issuer),
                P("issuanceDate", issuanceDate),
                P("subject", params.subject),
                P("credentialSubject",
                  Spread(Obj(0, <<P("id", params.subject)>>), params.credentialSubject)),
                P("expirationDate",
                  IF Truthy(params.expirationDate) THEN params.expirationDate ELSE Undefined),
                P("credentialStatus",
                  StatusEntry(params.issuer.v, params.revocationBitmapIndex)) >>))
        vcBytes == canonicalize(vc)
        sigBuf == sign(vcBytes.val, issuerPrivateKeyJwk, params.algorithm)
        algorithm == OrElse(params.algorithm, Str("Ed25519"))
    IN  IF ~vcBytes.ok THEN [ok |-> FALSE, val |-> vcBytes.val, signs |-> 0]
        ELSE IF ~sigBuf.ok THEN [ok |-> FALSE, val |-> sigBuf.val, signs |-> 1]
        ELSE [ok |-> TRUE, signs |-> 1,
              val |-> SetProp(vc, "proof", Obj(0, <<
                P("type", IF algorithm = Str("Ed25519")
                          THEN Str("Ed25519Signature2020") ELSE algorithm),
                P("created", issuanceDate),
                P("proofPurpose", Str("assertionMethod")),
                P("verificationMethod", Str(params.issuer.v \o "#keys-1")),
                P("jws", Str(arrBuftobase64u(sigBuf.val))) >>))]

\* checkSubObject(parentObj, childObj)
checkSubObject(parentObj, childObj) ==
    IF ~(parentObj.t \in {"obj", "arr"} /\ childObj.t \in {"obj", "arr"})
    THEN StrictEq(parentObj, childObj)
    ELSE \A i \in 1 .. Len(OwnKeys(childObj)) :
            LET key == OwnKeys(childObj)[i]
            IN  /\ HasKey(parentObj, key)
                /\ StrictEq(Get(parentObj, key), Get(childObj, key))

\* createDelegatedVC(parentVC, childSubject, claims, delegatorPrivKey,
\*                   expirationDate, revocationBitmapIndex) at time now
createDelegatedVC(parentVC, childSubject, claims, delegatorPrivKey, expirationDate, revocationBitmapIndex, now) ==
    IF Falsy(parentVC) THEN [ok |-> FALSE, val |-> ParentRequired, signs |-> 0]
    ELSE IF Falsy(Get(parentVC, "proof"))
    THEN [ok |-> FALSE, val |-> ParentProofMissing, signs |-> 0]
    ELSE IF Get(parentVC, "credentialSubject").t = "undef" /\ OwnKeys(claims) # <<>>
    THEN [ok |-> FALSE, val |-> TypeError, signs |-> 0]
    ELSE IF \E i \in 1 .. Len(OwnKeys(claims)) :
                ~checkSubObject(Get(Get(parentVC, "credentialSubject"), OwnKeys(claims)[i]),
                                Get(claims, OwnKeys(claims)[i]))
    THEN [ok |-> FALSE, val |-> ScopeViolation, signs |-> 0]
    ELSE
    LET subject == Get(parentVC, "subject")
        expires == IF Truthy(expirationDate) THEN expirationDate
                   ELSE Get(parentVC, "expirationDate")
        issuanceDate == Str(toISOString(now))
        childVC == Obj(0, Defined(<<
            P("context", Arr(0, Dedupe(Get(parentVC, "context").elems \o <<Str(W3cContext)>>, <<>>))),
            P("type", Arr(0, Dedupe(Get(parentVC, "type").elems \o <<Str("DelegatedCredential")>>, <<>>))),
            P("issuer", subject),
            P("subject", childSubject),
            P("issuanceDate", issuanceDate),
            P("expirationDate", IF Truthy(expires) THEN expires ELSE Undefined),
            P("credentialSubject",
              SetProp(Spread(Obj(0, <<P("id", childSubject)>>), claims), "parentVC", parentVC)),
            P("credentialStatus", StatusEntry(subject.v, revocationBitmapIndex)) >>))
        vcBytes == canonicalize(childVC)
        sigBuf == sign(vcBytes.val, delegatorPrivKey, Undefined)
    IN  IF ~vcBytes.ok THEN [ok |-> FALSE, val |-> vcBytes.val, signs |-> 0]
        ELSE IF ~sigBuf.ok THEN [ok |-> FALSE, val |-> sigBuf.val, signs |-> 1]
        ELSE [ok |-> TRUE, signs |-> 1,
              val |-> SetProp(childVC, "proof", Obj(0, Defined(<<
                P("type", IF OrElse(Get(parentVC, "algorithm"), Str("Ed25519")) = Str("Ed25519")
                          THEN Str("Ed25519Signature2020") ELSE Undefined),
                P("created", issuanceDate),
                P("proofPurpose", Str("delegation")),
                P("verificationMethod", Str(subject.v \o "#keys-1")),
                P("jws", Str(arrBuftobase64u(sigBuf.val))) >>)))]

\* isVcRevoked(didDocJson, credential)
isVcRevoked(didDocJson, credential) ==
    LET status == Get(credential, "credentialStatus")
        index == Get(status, "revocationBitmapIndex")
        serviceId == Get(status, "id")
        found == {i \in 1 .. Len(didDocJson.service) :
                    /\ Str(didDocJson.service[i].id) = serviceId
                    /\ didDocJson.service[i].type = REVOCATION_TYPE}
    IN  IF Falsy(status) THEN [ok |-> TRUE, val |-> "", revoked |-> FALSE]
        ELSE IF Get(status, "type") # Str(REVOCATION_TYPE)
        THEN [ok |-> FALSE, val |-> StatusTypeInvalid, revoked |-> FALSE]
        ELSE IF ~IsIndex(index)
        THEN [ok |-> FALSE, val |-> StatusIndexInvalid, revoked |-> FALSE]
        ELSE IF found = {}
        THEN [ok |-> FALSE, val |-> RevocationServiceNotFound, revoked |-> FALSE]
        ELSE isRevokedFromServiceEndpoint(
                didDocJson.service[CHOOSE i \in found : \A j \in found : i <= j].serviceEndpoint,
                IndexOf(index.v))

\* The fields verifySingleVC rebuilds the signed payload from.
PayloadFields == <<"context", "type", "issuer", "issuanceDate", "subject",
                   "credentialSubject", "expirationDate">>

\* The payload rebuilt from a credential; a field that is undefined is not
\* serialized, and expirationDate is taken only when truthy.
Payload(vc, fields) ==
    Obj(0, Defined([i \in 1 .. Len(fields) |->
        P(fields[i],
          IF fields[i] = "expirationDate" /\ Falsy(Get(vc, fields[i]))
          THEN Undefined ELSE Get(vc, fields[i]))]))

\* A comparison of a mutant, for which no date is ever past.
NeverBefore(date, now) == FALSE

\* date < now and date > now for the time of a date text, false for NaN.
Before(date, now) == ~getTime(date.v).nan /\ getTime(date.v).t < now
Later(date, now) == ~getTime(date.v).nan /\ getTime(date.v).t > now

\* The metadata checks of verifySingleVC at time now.
metaChecks(vc, now) ==
    IF Truthy(Get(vc, "expirationDate")) /\ Before(Get(vc, "expirationDate"), now)
    THEN Thrown(Expired)
    ELSE IF Later(Get(vc, "issuanceDate"), now) THEN Thrown(NotYetValid)
    ELSE Ok

\* verifySingleVC(vc, { withMetaChecks }) at time now, with the bitmaps the
\* holders publish: didSubject, or what it throws.
verifySingleVC(vc, withMetaChecks, now, bitmaps) ==
    IF Falsy(vc) \/ Falsy(Get(vc, "proof")) THEN Thrown(ProofMissing)
    ELSE IF Get(vc, "issuer").t # "str" THEN Thrown(TypeError)
    ELSE
    LET proof == Get(vc, "proof")
        didDoc == resolveDid(Get(vc, "issuer").v, bitmaps)
    IN  IF ~didDoc.ok THEN Thrown(didDoc.val)
        ELSE
        LET vms == didDoc.val.verificationMethod
            found == {i \in 1 .. Len(vms) : Str(vms[i].id) = Get(proof, "verificationMethod")}
        IN  IF found = {} THEN Thrown(KeyNotFound)
            ELSE
            LET publicKeyJwk == vms[CHOOSE i \in found : \A j \in found : i <= j].publicKeyJwk
                data == canonicalize(Payload(vc, PayloadFields))
                jws == Get(proof, "jws")
                alg == algFromProofType(Get(proof, "type"))
            IN  IF ~data.ok THEN Thrown(data.val)
                ELSE IF jws.t # "str" THEN Thrown(TypeError)
                ELSE
                LET valid == verify(data.val, b64uToArrBuf(jws.v), publicKeyJwk, alg)
                    isRevoke == isVcRevoked(didDoc.val, vc)
                IN  IF ~valid.ok THEN Thrown(valid.val)
                    ELSE IF ~valid.val THEN Thrown(SignatureInvalid)
                    ELSE IF ~isRevoke.ok THEN Thrown(isRevoke.val)
                    ELSE IF isRevoke.revoked THEN Thrown(Revoked)
                    ELSE IF withMetaChecks /\ ~metaChecks(vc, now).ok
                    THEN metaChecks(vc, now)
                    ELSE [ok |-> TRUE, val |-> "", didSubject |-> Get(vc, "subject"),
                          publicKeyJwkIssuer |-> publicKeyJwk]

\* A comparison of a mutant, for which no two DIDs ever differ.
NeverNotEqual(a, b) == FALSE

\* parentVC.subject != vc.issuer
LooseNotEqual(a, b) == a # b

\* validateParentVC(parentVC, vc)
validateParentVC(parentVC, vc) ==
    LET claims == Get(vc, "credentialSubject")
        keys == OwnKeys(claims)
    IN  IF LooseNotEqual(Get(parentVC, "subject"), Get(vc, "issuer"))
        THEN Thrown(ParentInvalid)
        ELSE IF \E i \in 1 .. Len(keys) :
                    /\ keys[i] \notin {"id", "parentVC"}
                    /\ ~checkSubObject(Get(Get(parentVC, "credentialSubject"), keys[i]),
                                       Get(claims, keys[i]))
        THEN Thrown(ScopeViolation)
        ELSE Ok

\* The verifyVC of a mutant that verifies parentVC before the credential's
\* own checks.
RECURSIVE verifyVCParentFirst(_, _, _)
verifyVCParentFirst(vc, now, bitmaps) ==
    IF /\ Truthy(Get(Get(vc, "credentialSubject"), "parentVC"))
       /\ ~verifyVCParentFirst(Get(Get(vc, "credentialSubject"), "parentVC"), now, bitmaps).ok
    THEN verifyVCParentFirst(Get(Get(vc, "credentialSubject"), "parentVC"), now, bitmaps)
    ELSE IF ~verifySingleVC(vc, TRUE, now, bitmaps).ok
    THEN Thrown(verifySingleVC(vc, TRUE, now, bitmaps).val)
    ELSE IF Truthy(Get(Get(vc, "credentialSubject"), "parentVC"))
    THEN validateParentVC(Get(Get(vc, "credentialSubject"), "parentVC"), vc)
    ELSE Ok

\* verifyVC(vc) at time now: true, or what it throws.
RECURSIVE verifyVC(_, _, _)
verifyVC(vc, now, bitmaps) ==
    LET own == verifySingleVC(vc, TRUE, now, bitmaps)
        claims == Get(vc, "credentialSubject")
        parentVC == Get(claims, "parentVC")
    IN  IF ~own.ok THEN Thrown(own.val)
        ELSE IF claims.t \in {"undef", "null"} THEN Thrown(TypeError)
        ELSE IF Falsy(parentVC) THEN Ok
        ELSE LET verParent == verifyVC(parentVC, now, bitmaps)
             IN  IF ~verParent.ok THEN verParent
                 ELSE validateParentVC(parentVC, vc)

\* What getPublickeyIssuerFromVC makes of the outcome own of verifySingleVC
\* on the credential and of the outcome parentInfo of its call on parentVC.
ChainInfo(vc, parentVC, own, parentInfo) ==
    IF ~own.ok THEN Thrown(own.val)
    ELSE IF Get(vc, "credentialSubject").t \in {"undef", "null"} THEN Thrown(TypeError)
    ELSE IF Falsy(parentVC)
    THEN [ok |-> TRUE, val |-> "", didSubject |-> own.didSubject,
          publicKeyJwkIssuer |-> own.publicKeyJwkIssuer,
          didOri |-> own.didSubject, parentPublicKeyJwkIssuer |-> Null]
    ELSE IF ~parentInfo.ok THEN parentInfo
    ELSE IF Falsy(parentInfo.didSubject) THEN Thrown(ParentVcInvalid)
    ELSE IF ~validateParentVC(parentVC, vc).ok THEN validateParentVC(parentVC, vc)
    ELSE [ok |-> TRUE, val |-> "", didSubject |-> own.didSubject,
          publicKeyJwkIssuer |-> own.publicKeyJwkIssuer,
          didOri |-> parentInfo.didSubject,
          parentPublicKeyJwkIssuer |-> parentInfo.publicKeyJwkIssuer]

\* getPublickeyIssuerFromVC(vc): the subject and the issuer's key of the
\* credential, the key of its parent's issuer and didOri, or what it throws.
RECURSIVE getPublickeyIssuerFromVC(_, _, _)
getPublickeyIssuerFromVC(vc, now, bitmaps) ==
    ChainInfo(vc, Get(Get(vc, "credentialSubject"), "parentVC"),
              verifySingleVC(vc, FALSE, now, bitmaps),
              IF Falsy(Get(Get(vc, "credentialSubject"), "parentVC")) THEN Ok
              ELSE getPublickeyIssuerFromVC(Get(Get(vc, "credentialSubject"), "parentVC"),
                                            now, bitmaps))

(***************************************************************************)
(* One credential: created, possibly altered, possibly revoked, verified   *)
(***************************************************************************)
MaxNow == 3
RevocationIndexes == {5, 6}

Params(issuer, subject, issuanceDate, expirationDate, credentialSubject, algorithm, revocationBitmapIndex) ==
    [issuer |-> issuer, subject |-> subject, type |-> Undefined, context |-> Undefined,
     issuanceDate |-> issuanceDate, expirationDate |-> expirationDate,
     credentialSubject |-> credentialSubject, algorithm |-> algorithm,
     revocationBitmapIndex |-> revocationBitmapIndex]

Roles(names) == Obj(0, <<P("roles", Arr(0, names))>>)

SingleParams ==
    {Params(Str(DidA), Str(DidB), issuanceDate, expirationDate, credentialSubject,
            algorithm, revocationBitmapIndex) :
        issuanceDate \in {Undefined, Str(toISOString(2))},
        expirationDate \in {Undefined, Str(toISOString(2)), Str("soon")},
        credentialSubject \in {Obj(0, <<>>), Roles(<<Str("x")>>)},
        algorithm \in {Undefined, Str("ES256")},
        revocationBitmapIndex \in {Undefined, Num("5"), Num("6"), Num("-1")}}

SingleKeys == {PrivateJwk(DidA), PrivateJwk(DidB), PublicJwk(DidA)}

\* delete x[key]
RemoveProp(x, key) ==
    [x EXCEPT !.props = FilterSeq(x.props, {p \in SeqToSet(x.props) : p.k # key})]

\* The ways one payload field of a credential is changed, added or removed
\* (undefined stands for removed).
Alterations(vc) ==
    { [field |-> "context", val |-> Arr(0, <<Str("x")>>)],
      [field |-> "type", val |-> Arr(0, <<Str("x")>>)],
      [field |-> "issuer", val |-> Str(DidB)],
      [field |-> "subject", val |-> Str(DidC)],
      [field |-> "issuanceDate", val |-> Str(toISOString(0))],
      [field |-> "expirationDate", val |-> Str(toISOString(8))],
      [field |-> "expirationDate", val |-> Undefined],
      [field |-> "credentialSubject",
       val |-> SetProp(Get(vc, "credentialSubject"), "a", Str("x"))],
      [field |-> "credentialStatus", val |-> revocationStatus(DidA, Num("6"))],
      [field |-> "credentialStatus", val |-> Undefined] }

Unmade == [by |-> "", key |-> "", altered |-> ""]

\* No outcome of a creation or of a verification is waiting to be taken.
Quiet == vOut = NotRun /\ vRes = NotRun /\ vChain = NotRun

SingleInit ==
    /\ vNow = 1
    /\ vBits = [did \in Dids |-> {}]
    /\ vVc = Undefined
    /\ vMade = Unmade
    /\ vOut = NotRun
    /\ vRes = NotRun
    /\ vSteps = NoSteps
    /\ vChain = NotRun
    /\ vTrace = NoSteps
    /\ CanonIdle
    /\ UrlIdle
    /\ WebIdle
    /\ VpIdle
    /\ RevIdle

\* An issuer calls createVC.
CreateVC(params, key) ==
    /\ Quiet
    /\ LET out == createVC(params, key, vNow)
       IN  /\ vOut' = [op |-> "createVC", ok |-> out.ok, signs |-> out.signs,
                       val |-> IF out.ok THEN "created" ELSE out.val,
                       parentVC |-> Undefined, claims |-> Undefined]
           /\ vVc' = IF out.ok THEN out.val ELSE vVc
           /\ vMade' = IF out.ok THEN [by |-> "createVC", key |-> key.x, altered |-> ""]
                       ELSE vMade
    /\ UNCHANGED <<vNow, vBits, vRes, vSteps, canonVars, urlVars, webVars,
                 vChain, vTrace, vpVars, revVars>>

\* Somebody changes one payload field of the credential.
Alter(change) ==
    /\ Quiet
    /\ vVc # Undefined
    /\ vMade.altered = ""
    /\ Get(vVc, change.field) # change.val
    /\ vVc' = IF change.val = Undefined THEN RemoveProp(vVc, change.field)
              ELSE SetProp(vVc, change.field, change.val)
    /\ vMade' = [vMade EXCEPT !.altered = change.field]
    /\ UNCHANGED <<vNow, vBits, vOut, vRes, vSteps, canonVars, urlVars, webVars,
                 vChain, vTrace, vpVars, revVars>>

\* A holder publishes its bitmap with one more index set.
PublishRevoked(did, index) ==
    /\ Quiet
    /\ index \notin vBits[did]
    /\ vBits' = [vBits EXCEPT ![did] = @ \cup {index}]
    /\ UNCHANGED <<vNow, vVc, vMade, vOut, vRes, vSteps, canonVars, urlVars, webVars,
                 vChain, vTrace, vpVars, revVars>>

\* A day passes.
NextDay ==
    /\ Quiet
    /\ vNow < MaxNow
    /\ vNow' = vNow + 1
    /\ UNCHANGED <<vBits, vVc, vMade, vOut, vRes, vSteps, canonVars, urlVars, webVars,
                 vChain, vTrace, vpVars, revVars>>

\* The credentials of the chain of a credential, the root last.
RECURSIVE Levels(_)
Levels(vc) ==
    IF vc.t # "obj" THEN <<>>
    ELSE <<vc>> \o Levels(Get(Get(vc, "credentialSubject"), "parentVC"))

\* What the steps of verifyVC come to for each credential of a chain:
\* whether its own checks pass up to the dates (early), whether they pass
\* with the dates (own), and whether its parentVC verifies (parent).
RECURSIVE Steps(_, _, _)
Steps(chain, now, bitmaps) ==
    IF chain = <<>> THEN <<>>
    ELSE LET early == verifySingleVC(Head(chain), FALSE, now, bitmaps).ok
         IN  <<[early |-> early,
                own |-> early /\ metaChecks(Head(chain), now).ok,
                parent |-> Len(chain) > 1 /\ verifyVC(chain[2], now, bitmaps).ok]>>
             \o Steps(Tail(chain), now, bitmaps)

\* The steps of verifySingleVC with the metadata checks, in the order of
\* its statements.
StepNames == <<"proof", "issuer", "key", "signature", "revocation", "metadata">>

\* The verification method of the issuer's document that the proof names.
MethodOf(vc, bitmaps) ==
    LET vms == resolveDid(Get(vc, "issuer").v, bitmaps).val.verificationMethod
        found == {i \in 1 .. Len(vms) :
                    Str(vms[i].id) = Get(Get(vc, "proof"), "verificationMethod")}
    IN  IF found = {} THEN <<>> ELSE <<vms[CHOOSE i \in found : \A j \in found : i <= j]>>

\* What the signature step makes of the canonical payload data.
SignatureStep(vc, data, jws, publicKeyJwk) ==
    IF ~data.ok THEN Thrown(data.val)
    ELSE IF jws.t # "str" THEN Thrown(TypeError)
    ELSE IF ~verify(data.val, b64uToArrBuf(jws.v), publicKeyJwk,
                    algFromProofType(Get(Get(vc, "proof"), "type"))).ok
    THEN Thrown(verify(data.val, b64uToArrBuf(jws.v), publicKeyJwk,
                       algFromProofType(Get(Get(vc, "proof"), "type"))).val)
    ELSE IF ~verify(data.val, b64uToArrBuf(jws.v), publicKeyJwk,
                    algFromProofType(Get(Get(vc, "proof"), "type"))).val
    THEN Thrown(SignatureInvalid)
    ELSE Ok

\* What the revocation step makes of the outcome of isVcRevoked.
RevocationStep(isRevoke) ==
    IF ~isRevoke.ok THEN Thrown(isRevoke.val)
    ELSE IF isRevoke.revoked THEN Thrown(Revoked)
    ELSE Ok

\* The outcome of one step of verifySingleVC on a credential that has passed
\* the steps before it.
StepOutcome(vc, step, now, bitmaps) ==
    CASE step = "proof" ->
            IF Falsy(vc) \/ Falsy(Get(vc, "proof")) THEN Thrown(ProofMissing) ELSE Ok
      [] step = "issuer" ->
            IF Get(vc, "issuer").t # "str" THEN Thrown(TypeError)
            ELSE IF ~resolveDid(Get(vc, "issuer").v, bitmaps).ok
            THEN Thrown(resolveDid(Get(vc, "issuer").v, bitmaps).val)
            ELSE Ok
      [] step = "key" ->
            IF MethodOf(vc, bitmaps) = <<>> THEN Thrown(KeyNotFound) ELSE Ok
      [] step = "signature" ->
            SignatureStep(vc, canonicalize(Payload(vc, PayloadFields)),
                          Get(Get(vc, "proof"), "jws"),
                          MethodOf(vc, bitmaps)[1].publicKeyJwk)
      [] step = "revocation" ->
            RevocationStep(isVcRevoked(resolveDid(Get(vc, "issuer").v, bitmaps).val, vc))
      [] step = "metadata" -> metaChecks(vc, now)

\* One step that ran at a level of the chain, and what it came to.
Visit(level, step, out) == <<[level |-> level, step |-> step, ok |-> out.ok, val |-> out.val]>>

\* The steps of verifySingleVC that run on a credential, each one only when
\* the one before it has passed.
RECURSIVE RunSteps(_, _, _, _, _)
RunSteps(vc, level, steps, now, bitmaps) ==
    IF steps = <<>> THEN <<>>
    ELSE Visit(level, Head(steps), StepOutcome(vc, Head(steps), now, bitmaps))
         \o (IF StepOutcome(vc, Head(steps), now, bitmaps).ok
             THEN RunSteps(vc, level, Tail(steps), now, bitmaps) ELSE <<>>)

AllPassed(visits) == \A i \in 1 .. Len(visits) : visits[i].ok

\* What verifyVC goes on to after the steps own of verifySingleVC on the
\* credential: the steps on parentVC and then validateParentVC.
Onward(vc, level, own, parentVisits) ==
    IF ~AllPassed(own) THEN own
    ELSE IF Get(vc, "credentialSubject").t \in {"undef", "null"}
    THEN own \o Visit(level, "parentVC", Thrown(TypeError))
    ELSE IF Falsy(Get(Get(vc, "credentialSubject"), "parentVC")) THEN own
    ELSE IF ~AllPassed(parentVisits) THEN own \o parentVisits
    ELSE own \o parentVisits
         \o Visit(level, "delegation",
                  validateParentVC(Get(Get(vc, "credentialSubject"), "parentVC"), vc))

\* The steps verifyVC(vc) runs, in their order, with the level of the chain
\* each one runs on (1 for vc, 2 for its parentVC, ...).
RECURSIVE Visits(_, _, _, _)
Visits(vc, level, now, bitmaps) ==
    Onward(vc, level, RunSteps(vc, level, StepNames, now, bitmaps),
           IF Falsy(Get(Get(vc, "credentialSubject"), "parentVC")) THEN <<>>
           ELSE Visits(Get(Get(vc, "credentialSubject"), "parentVC"), level + 1, now, bitmaps))

\* A verifier calls verifyVC on the credential.
VerifyVC ==
    /\ Quiet
    /\ vVc # Undefined
    /\ vRes' = verifyVC(vVc, vNow, vBits)
    /\ vSteps' = Steps(Levels(vVc), vNow, vBits)
    /\ vTrace' = Visits(vVc, 1, vNow, vBits)
    /\ UNCHANGED <<vNow, vBits, vVc, vMade, vOut, canonVars, urlVars, webVars,
                 vChain, vpVars, revVars>>

\* Nothing is revoked.
NoBits == [did \in Dids |-> {}]

\* What is kept of the outcome info of getPublickeyIssuerFromVC.
Outcome(info, unrevoked) ==
    [ok |-> info.ok, val |-> info.val,
     didSubject |-> IF info.ok THEN info.didSubject ELSE Undefined,
     didOri |-> IF info.ok THEN info.didOri ELSE Undefined,
     clear |-> unrevoked.ok]

\* A verifier calls getPublickeyIssuerFromVC on the credential; clear records
\* what the same call comes to when no index is revoked.
GetPublickeyIssuerFromVC ==
    /\ Quiet
    /\ vVc # Undefined
    /\ vChain' = Outcome(getPublickeyIssuerFromVC(vVc, vNow, vBits),
                         getPublickeyIssuerFromVC(vVc, vNow, NoBits))
    /\ UNCHANGED <<vNow, vBits, vVc, vMade, vOut, vRes, vSteps, vTrace, canonVars,
                 urlVars, webVars, vpVars, revVars>>

\* The caller has taken the outcome of a creation or of a verification.
Dismiss ==
    /\ ~Quiet
    /\ vOut' = NotRun
    /\ vRes' = NotRun
    /\ vSteps' = NoSteps
    /\ vChain' = NotRun
    /\ vTrace' = NoSteps
    /\ UNCHANGED <<vNow, vBits, vVc, vMade, canonVars, urlVars, webVars,
                 vpVars, revVars>>

SingleNext ==
    \/ \E params \in SingleParams, key \in SingleKeys : vVc = Undefined /\ CreateVC(params, key)
    \/ \E change \in Alterations(vVc) : Alter(change)
    \/ \E index \in RevocationIndexes : PublishRevoked(DidA, index)
    \/ NextDay
    \/ VerifyVC
    \/ GetPublickeyIssuerFromVC
    \/ Dismiss
SpecVC == SingleInit /\ [][SingleNext]_vars

(***************************************************************************)
(* C1, C2, C6: one credential from createVC to verifyVC                    *)
(***************************************************************************)
Verified == vRes # NotRun
Issuer == Get(vVc, "issuer").v
StatusIndex == IndexOf(Get(Get(vVc, "credentialStatus"), "revocationBitmapIndex").v)

\* The credential is as createVC returned it, signed with the key its issuer
\* publishes as #keys-1.
AsIssued == vMade.by = "createVC" /\ vMade.altered = "" /\ vMade.key = Issuer

\* Its issuanceDate is not later than now and its expirationDate, if it has
\* one, is later than now.
InForce ==
    /\ ~Later(Get(vVc, "issuanceDate"), vNow)
    /\ HasOwn(vVc, "expirationDate") => Later(Get(vVc, "expirationDate"), vNow)

\* C1: verifyVC succeeds on the credential createVC returned, for params with
\* or without an expirationDate in the future and with or without a
\* revocationBitmapIndex whose bit is clear in the issuer's bitmap, signed
\* with the key the issuer publishes as #keys-1.
C1_RoundTrip ==
    (/\ Verified /\ AsIssued /\ InForce
     /\ HasOwn(vVc, "credentialStatus") => StatusIndex \notin vBits[Issuer])
        => vRes = Ok

\* C2: after a change of one payload field of a credential signed by createVC
\* (context, type, issuer, subject, issuanceDate, expirationDate,
\* credentialSubject or credentialStatus, changed, added or removed) verifyVC
\* fails with SignatureInvalid.
C2_TamperDetected ==
    (Verified /\ vMade.by = "createVC" /\ vMade.altered # "")
        => vRes = Thrown(SignatureInvalid)

\* C6: for a credential with a credentialStatus of type RevocationBitmap2022
\* that is otherwise valid, verifyVC fails with Revoked when the bit at its
\* revocationBitmapIndex is set in the issuer's bitmap and succeeds when the
\* bit is clear.
C6_RevokedIffBitSet ==
    (Verified /\ AsIssued /\ InForce /\ HasOwn(vVc, "credentialStatus"))
        => IF StatusIndex \in vBits[Issuer] THEN vRes = Thrown(Revoked)
           ELSE vRes = Ok

(***************************************************************************)
(* Chains: a root credential, delegations of it by createDelegatedVC, and  *)
(* credentials an issuer builds by createVC around a parentVC              *)
(***************************************************************************)
MaxChain == 3

\* The number of credentials in the chain of a credential.
RECURSIVE Depth(_)
Depth(vc) ==
    IF vc.t # "obj" THEN 0
    ELSE 1 + Depth(Get(Get(vc, "credentialSubject"), "parentVC"))

\* The claims of the root: a primitive, an array and an object.
RootClaims ==
    Obj(0, << P("a", Str("x")),
              P("roles", Arr(0, <<Str("x"), Str("y")>>)),
              P("b", Obj(0, <<P("x", Str("1")), P("y", Str("1"))>>)) >>)

RootParams ==
    {Params(Str(DidA), Str(DidB), dates[1], dates[2], RootClaims, Undefined, Undefined) :
        dates \in {<<Undefined, Undefined>>, <<Undefined, Str(toISOString(2))>>,
                   <<Str(toISOString(2)), Undefined>>}}

\* The claims a delegator asks for.
DelegatedClaims ==
    { Obj(0, <<P("a", Str("x"))>>),
      Obj(0, <<P("a", Str("y"))>>),
      Obj(0, <<P("roles", Arr(0, <<Str("x"), Str("y")>>))>>),
      Obj(0, <<P("roles", Arr(0, <<Str("x")>>))>>),
      Obj(0, <<P("roles", Arr(0, <<Str("y")>>))>>),
      Obj(0, <<P("b", Obj(0, <<P("x", Str("1"))>>))>>),
      Obj(0, <<P("b", Obj(0, <<P("x", Str("2"))>>))>>) }

\* The params of an issuer that builds by createVC a credential around the
\* credential at hand, with claims of its choice.
WrappingParams(parentVC) ==
    {Params(Str(issuer), Str(DidC), Undefined, Undefined,
            SetProp(claims, "parentVC", parentVC), Undefined, Undefined) :
        issuer \in {DidB, DidC},
        claims \in {Obj(0, <<P("a", Str("x"))>>), Obj(0, <<P("a", Str("y"))>>)}}

\* A value is a structural subset of another: a primitive or an array is
\* equal to it, an object has each of its keys in it with a value that is a
\* structural subset of the value there.
RECURSIVE StructuralSubset(_, _)
StructuralSubset(parent, child) ==
    IF child.t = "obj" THEN
        /\ parent.t = "obj"
        /\ \A i \in 1 .. Len(child.props) :
              /\ HasOwn(parent, child.props[i].k)
              /\ StructuralSubset(Get(parent, child.props[i].k), child.props[i].v)
    ELSE LogEq(parent, child)

\* Every claim is a structural subset of the parent's value for its key.
Narrowed(parentVC, claims) ==
    \A i \in 1 .. Len(claims.props) :
        claims.props[i].k \in {"id", "parentVC"}
        \/ StructuralSubset(Get(Get(parentVC, "credentialSubject"), claims.props[i].k),
                            claims.props[i].v)

\* What a holder asks createDelegatedVC for: the credential at hand as the
\* parent with its key, with an expirationDate of its own or without, or the
\* parent without its proof, or not its key.
Delegations(parentVC) ==
    LET key == PrivateJwk(Get(parentVC, "subject").v)
        some == Obj(0, <<P("a", Str("x"))>>)
    IN  {[parentVC |-> parentVC, claims |-> claims, key |-> key, expirationDate |-> Undefined] :
            claims \in DelegatedClaims}
        \cup {[parentVC |-> parentVC, claims |-> some, key |-> key,
               expirationDate |-> Str(toISOString(8))],
              [parentVC |-> RemoveProp(parentVC, "proof"), claims |-> some, key |-> key,
               expirationDate |-> Undefined],
              [parentVC |-> parentVC, claims |-> some,
               key |-> PublicJwk(Get(parentVC, "subject").v),
               expirationDate |-> Undefined]}

\* A claim has a value that is an object with an object in it.
NestedClaim(claims) ==
    \E i \in 1 .. Len(claims.props) :
        /\ claims.props[i].k \notin {"id", "parentVC"}
        /\ claims.props[i].v.t = "obj"
        /\ \E j \in 1 .. Len(claims.props[i].v.props) : claims.props[i].v.props[j].v.t = "obj"

\* A holder calls createDelegatedVC.
CreateDelegatedVC(parentVC, childSubject, claims, key, expirationDate, revocationBitmapIndex) ==
    /\ Quiet
    /\ LET out == createDelegatedVC(parentVC, childSubject, claims, key,
                                    expirationDate, revocationBitmapIndex, vNow)
       IN  /\ vOut' = [op |-> "createDelegatedVC", ok |-> out.ok, signs |-> out.signs,
                       val |-> IF out.ok THEN "created" ELSE out.val,
                       proved |-> Truthy(Get(parentVC, "proof")),
                       asked |-> expirationDate,
                       index |-> revocationBitmapIndex,
                       nested |-> NestedClaim(claims),
                       narrowed |-> Narrowed(parentVC, claims)]
           /\ vVc' = IF out.ok THEN out.val ELSE vVc
           /\ vMade' = IF out.ok
                       THEN [by |-> "createDelegatedVC", key |-> key.x, altered |-> ""]
                       ELSE vMade
    /\ UNCHANGED <<vNow, vBits, vRes, vSteps, canonVars, urlVars, webVars,
                 vChain, vTrace, vpVars, revVars>>

\* The chain is built on the first day and verified on that day or later.
ChainNext ==
    \/ \E params \in RootParams :
            vVc = Undefined /\ CreateVC(params, PrivateJwk(params.issuer.v))
    \/ /\ vNow = 1 /\ Depth(vVc) \in 1 .. MaxChain - 1
       /\ \E params \in WrappingParams(vVc) :
            CreateVC(params, PrivateJwk(params.issuer.v))
    \/ /\ vNow = 1 /\ Depth(vVc) \in 1 .. MaxChain - 1
       /\ \E ask \in Delegations(vVc) :
            CreateDelegatedVC(ask.parentVC, Str(DidC), ask.claims, ask.key,
                              ask.expirationDate, Undefined)
    \/ vVc # Undefined /\ NextDay
    \/ VerifyVC
    \/ GetPublickeyIssuerFromVC
    \/ Dismiss
SpecChain == SingleInit /\ [][ChainNext]_vars

(***************************************************************************)
(* C3, C4, C5, C7: delegation chains                                       *)
(***************************************************************************)
Chain == Levels(vVc)
Links == 1 .. Len(Chain) - 1

\* The own checks of the first k credentials of the chain pass.
OwnChecksPass(k) == \A j \in 1 .. k : vSteps[j].own

\* The parent of the k-th credential was issued to another holder than the
\* one that issued the k-th credential.
Foreign(k) == Get(Chain[k + 1], "subject") # Get(Chain[k], "issuer")

\* C3: when the own checks of a delegated credential pass and its parentVC
\* verifies but the parent's subject differs from the credential's issuer,
\* verifyVC fails with ParentInvalid, at whichever link of the chain this is;
\* in an accepted chain every issuer is the subject of its parent.
C3_ParentInvalid ==
    Verified =>
        /\ \A k \in Links :
            (OwnChecksPass(k) /\ vSteps[k].parent /\ Foreign(k))
                => vRes = Thrown(ParentInvalid)
        /\ vRes = Ok => \A k \in Links : ~Foreign(k)

\* A chain of three whose top credential was issued by the subject of its
\* parent, while that parent was not issued by the subject of the root.
C3_Witness ==
    /\ Verified /\ Len(Chain) = 3
    /\ ~Foreign(1) /\ Foreign(2)
    /\ OwnChecksPass(2) /\ vSteps[2].parent
    /\ vRes = Thrown(ParentInvalid)

\* The claims of the k-th credential are structural subsets of its parent's.
NarrowedAt(k) == Narrowed(Chain[k + 1], Get(Chain[k], "credentialSubject"))

\* C4: verifyVC accepts a delegated credential only if at every link every
\* claim other than id and parentVC is a structural subset of the parent's
\* value for the same key (primitives and arrays equal, objects key-wise
\* contained), and fails with ScopeViolation at a link that is otherwise in
\* order.
C4_ScopeNarrows ==
    Verified =>
        /\ vRes = Ok => \A k \in Links : NarrowedAt(k)
        /\ \A k \in Links :
            (/\ OwnChecksPass(k) /\ vSteps[k].parent
             /\ ~Foreign(k) /\ ~NarrowedAt(k))
                => vRes = Thrown(ScopeViolation)

\* C5: createDelegatedVC fails with ScopeViolation, without a call of sign
\* and without a credential, when the parent has no proof or a claim is not
\* a structural subset of the parent's value for its key.
C5_DelegationRefused ==
    (/\ vOut # NotRun /\ vOut.op = "createDelegatedVC"
     /\ ~vOut.proved \/ ~vOut.narrowed)
        => ~vOut.ok /\ vOut.val = ScopeViolation /\ vOut.signs = 0

\* The day a date text stands for, and what the dates of a credential say.
IsDate(x) == x.t = "str" /\ \E t \in TimeRange : toISOString(t) = x.v
Day(x) == CHOOSE t \in TimeRange : toISOString(t) = x.v
HasExpired(vc) ==
    IsDate(Get(vc, "expirationDate")) /\ Day(Get(vc, "expirationDate")) < vNow
NotYetIssued(vc) ==
    IsDate(Get(vc, "issuanceDate")) /\ Day(Get(vc, "issuanceDate")) > vNow

\* Verification gets as far as the dates of the k-th credential: the own
\* checks of the credentials around it pass, and so do its own before the
\* dates.
ReachesDates(k) ==
    /\ OwnChecksPass(k - 1)
    /\ vSteps[k].early

\* C7: verifyVC fails with Expired when the expirationDate of a credential
\* is earlier than now, and with NotYetValid when its issuanceDate is later
\* than now, whether it is the credential given or one of its parent chain
\* (the first such credential from the top on, expiry before issuance); a
\* chain with an expired or not yet valid credential is never accepted.
C7_Dates ==
    Verified =>
        /\ \A k \in 1 .. Len(Chain) :
            ReachesDates(k) =>
                /\ HasExpired(Chain[k]) => vRes = Thrown(Expired)
                /\ (NotYetIssued(Chain[k]) /\ ~HasExpired(Chain[k]))
                        => vRes = Thrown(NotYetValid)
        /\ vRes = Ok =>
            \A k \in 1 .. Len(Chain) : ~HasExpired(Chain[k]) /\ ~NotYetIssued(Chain[k])

\* A delegated credential still in force whose parent has expired.
C7_Witness ==
    /\ Verified /\ Len(Chain) >= 2
    /\ ~HasExpired(Chain[1]) /\ ~NotYetIssued(Chain[1])
    /\ ReachesDates(2) /\ HasExpired(Chain[2])
    /\ vRes = Thrown(Expired)

(***************************************************************************)
(* Presentations (vp/index.ts)                                             *)
(***************************************************************************)
\* base64url(buf) and b64urlToU8(b64url): the text of a buffer decodes to
\* that buffer, any other text to other bytes.
base64url(buf) == Base64uMark \o buf
b64urlToU8(b64url) ==
    IF HasPrefix(b64url, Base64uMark) THEN After(b64url, Base64uMark)
    ELSE "bytes/" \o b64url

\* algFromProofType of vp/index.ts: /^Ed25519Signature2020$/i or no type.
Ed25519ProofTypes ==
    {Str("Ed25519Signature2020"), Str("ed25519signature2020"), Str("ED25519SIGNATURE2020")}
vpAlgFromProofType(proofType) ==
    IF proofType \in Ed25519ProofTypes \/ Falsy(proofType) THEN "Ed25519" ELSE "ES256"

\* nonce ?? "" and algorithm = "Ed25519" by default
Nullish(x) == x.t \in {"undef", "null"}

\* createVP(vcs, holderDid, holderPrivateKeyJwk, nonce, algorithm) at time
\* now: the presentation, or what it throws; signs counts the calls of sign.
createVP(vcs, holderDid, holderPrivateKeyJwk, nonce, algorithm, now) ==
    LET nonce1 == IF Nullish(nonce) THEN Str("") ELSE nonce
        alg == IF algorithm.t = "undef" THEN Str("Ed25519") ELSE algorithm
        vp == Obj(0, << P("context", Arr(0, <<Str(W3cContext)>>)),
                        P("type", Arr(0, <<Str("VerifiablePresentation")>>)),
                        P("verifiableCredential", vcs),
                        P("holder", holderDid),
                        P("challenge", nonce1) >>)
        vpBytes == Stringify(SetProp(Spread(Obj(0, <<>>), vp), "nonce", nonce1))
        sigBuf == sign(vpBytes, holderPrivateKeyJwk, alg)
    IN  IF ~sigBuf.ok THEN [ok |-> FALSE, val |-> sigBuf.val, signs |-> 1]
        ELSE [ok |-> TRUE, signs |-> 1,
              val |-> SetProp(vp, "proof", Obj(0, <<
                P("type", Str(alg.v \o "Signature2020")),
                P("created", Str(toISOString(now))),
                P("proofPurpose", Str("authentication")),
                P("verificationMethod", Str(holderDid.v \o "#key-1")),
                P("challenge", nonce1),
                P("jws", Str(base64url(sigBuf.val))) >>))]

\* The payload verifyVP rebuilds from a presentation.
VpPayload(vp) ==
    LET challenge == Get(Get(vp, "proof"), "challenge")
    IN  Obj(0, Defined(<<
            P("context", Get(vp, "context")),
            P("type", Get(vp, "type")),
            P("verifiableCredential", Get(vp, "verifiableCredential")),
            P("holder", Get(vp, "holder")),
            P("challenge", IF Nullish(challenge) THEN Str("") ELSE challenge) >>))

\* The checks of verifyVP on the proof of the holder, before it turns to the
\* credentials: the signature verifies with the first key of the holder.
HolderProof(vp, bitmaps) ==
    LET proof == Get(vp, "proof")
        jws == Get(proof, "jws")
        holder == Get(vp, "holder")
        didDoc == resolveDid(holder.v, bitmaps)
    IN  IF Nullish(vp) \/ Falsy(proof) THEN FALSE
        ELSE IF Falsy(jws) THEN FALSE
        ELSE IF holder.t # "str" \/ jws.t # "str" THEN FALSE
        ELSE IF ~didDoc.ok THEN FALSE
        ELSE IF didDoc.val.verificationMethod = <<>> THEN FALSE
        ELSE
        LET publicKeyJwk == didDoc.val.verificationMethod[1].publicKeyJwk
            data == Stringify(VpPayload(vp))
            ok == verify(data, b64urlToU8(jws.v), publicKeyJwk,
                         vpAlgFromProofType(Get(proof, "type")))
        IN  ok.ok /\ ok.val

\* for (const vc of vp.verifiableCredential) verifyVC(vc)
RECURSIVE AllVerify(_, _, _)
AllVerify(vcs, now, bitmaps) ==
    IF vcs = <<>> THEN TRUE
    ELSE verifyVC(Head(vcs), now, bitmaps).ok /\ AllVerify(Tail(vcs), now, bitmaps)

\* A verifyVP of a mutant that does not look at the number of credentials.
verifyVPOfAny(vp, now, bitmaps) ==
    LET vcs == Get(vp, "verifiableCredential")
    IN  IF ~HolderProof(vp, bitmaps) THEN FALSE
        ELSE IF vcs.t # "arr" THEN FALSE
        ELSE AllVerify(vcs.elems, now, bitmaps)

\* verifyVP(vp) at time now: the boolean it returns; whatever is thrown
\* inside it is caught and turned into false.
verifyVP(vp, now, bitmaps) ==
    LET vcs == Get(vp, "verifiableCredential")
    IN  IF ~HolderProof(vp, bitmaps) THEN FALSE
        ELSE IF vcs.t # "arr" THEN FALSE
        ELSE IF vcs.elems = <<>> THEN FALSE
        ELSE AllVerify(vcs.elems, now, bitmaps)

(***************************************************************************)
(* A presentation: created or received, then verified                      *)
(***************************************************************************)
\* The credentials a holder has at hand, all issued on the first day: one
\* for DidB, one for DidB that expires, one for DidC, one for DidB that
\* names a revocation index, and one DidB delegated to DidC.
HeldRoot == createVC(Params(Str(DidA), Str(DidB), Undefined, Undefined, RootClaims, Undefined, Undefined), PrivateJwk(DidA), 1).val
HeldExpiring == createVC(Params(Str(DidA), Str(DidB), Undefined, Str(toISOString(2)), RootClaims, Undefined, Undefined), PrivateJwk(DidA), 1).val
HeldOther == createVC(Params(Str(DidA), Str(DidC), Undefined, Undefined, RootClaims, Undefined, Undefined), PrivateJwk(DidA), 1).val
HeldRevocable == SetProp(HeldRoot, "credentialStatus", revocationStatus(DidA, Num("5")))
HeldDelegated == createDelegatedVC(HeldRoot, Str(DidC), Obj(0, <<P("a", Str("x"))>>), PrivateJwk(DidB), Undefined, Undefined, 1).val

Presentable ==
    { <<>>, <<HeldRoot>>, <<HeldExpiring>>, <<HeldRoot, HeldExpiring>>, <<HeldOther>>,
      <<HeldRoot, HeldOther>>, <<HeldRevocable>>, <<HeldRevocable, HeldExpiring>>,
      <<HeldDelegated>> }
Holders == {DidB, DidC}
Nonces == {Str("n"), Undefined}

\* A presentation made elsewhere, signed over the payload verifyVP rebuilds.
ReceivedVP(vcs, holderDid, holderPrivateKeyJwk, nonce, now) ==
    LET made == createVP(vcs, holderDid, holderPrivateKeyJwk, nonce, Undefined, now).val
        jws == base64url(SubtleSign(holderPrivateKeyJwk, Stringify(VpPayload(made))))
    IN  SetProp(made, "proof", SetProp(Get(made, "proof"), "jws", Str(jws)))

VpQuiet == pRes = NotRun

VpInit ==
    /\ vNow = 1
    /\ vBits = [did \in Dids |-> {}]
    /\ vVc = Undefined /\ vMade = Unmade /\ vOut = NotRun /\ vRes = NotRun
    /\ vSteps = NoSteps /\ vChain = NotRun /\ vTrace = NoSteps
    /\ pVp = Undefined /\ pMade = Unmade /\ pRes = NotRun
    /\ CanonIdle /\ UrlIdle /\ WebIdle /\ RevIdle

\* A holder calls createVP.
CreateVP(vcs, holderDid, key, nonce, algorithm) ==
    /\ VpQuiet
    /\ pVp = Undefined
    /\ LET out == createVP(Arr(0, vcs), Str(holderDid), key, nonce, algorithm, vNow)
       IN  /\ out.ok
           /\ pVp' = out.val
           /\ pMade' = [by |-> "createVP", key |-> key.x, altered |-> ""]
    /\ UNCHANGED <<pRes, vcVars, revVars, canonVars, urlVars, webVars>>

\* A verifier is handed a presentation made elsewhere.
ReceiveVP(vcs, holderDid, key, nonce) ==
    /\ VpQuiet
    /\ pVp = Undefined
    /\ pVp' = ReceivedVP(Arr(0, vcs), Str(holderDid), key, nonce, vNow)
    /\ pMade' = [by |-> "elsewhere", key |-> key.x, altered |-> ""]
    /\ UNCHANGED <<pRes, vcVars, revVars, canonVars, urlVars, webVars>>

\* What verifyVC comes to for each credential of a list.
RECURSIVE Causes(_, _, _)
Causes(vcs, now, bitmaps) ==
    IF vcs = <<>> THEN <<>>
    ELSE <<verifyVC(Head(vcs), now, bitmaps)>> \o Causes(Tail(vcs), now, bitmaps)

\* A verifier calls verifyVP on the presentation; signed and causes record
\* what its steps came to.
VerifyVP ==
    /\ VpQuiet
    /\ pVp # Undefined
    /\ pRes' = [ok |-> TRUE,
                val |-> IF verifyVP(pVp, vNow, vBits) THEN "true" ELSE "false",
                signed |-> HolderProof(pVp, vBits),
                causes |-> IF Get(pVp, "verifiableCredential").t = "arr"
                           THEN Causes(Get(pVp, "verifiableCredential").elems, vNow, vBits)
                           ELSE <<>>]
    /\ UNCHANGED <<pVp, pMade, vcVars, revVars, canonVars, urlVars, webVars>>

\* The verifier has taken the outcome.
DismissVP ==
    /\ ~VpQuiet
    /\ pRes' = NotRun
    /\ UNCHANGED <<pVp, pMade, vcVars, revVars, canonVars, urlVars, webVars>>

VpNext ==
    \/ \E vcs \in Presentable, holderDid \in Holders, nonce \in Nonces :
       \E algorithm \in {Undefined, Str("ES256")}, key \in {PrivateJwk(holderDid), PrivateJwk(DidA)} :
            CreateVP(vcs, holderDid, key, nonce, algorithm)
    \/ \E vcs \in Presentable, holderDid \in Holders, nonce \in Nonces :
       \E key \in {PrivateJwk(holderDid), PrivateJwk(DidA)} :
            ReceiveVP(vcs, holderDid, key, nonce)
    \/ \E index \in RevocationIndexes : VpQuiet /\ PublishRevoked(DidA, index)
    \/ VpQuiet /\ NextDay
    \/ VerifyVP
    \/ DismissVP
SpecVP == VpInit /\ [][VpNext]_vars

(***************************************************************************)
(* C11, C12, C17: presentations                                            *)
(***************************************************************************)
VpVerified == pRes # NotRun
Holder == Get(pVp, "holder").v
Presented == Get(pVp, "verifiableCredential").elems
AllPass == \A i \in 1 .. Len(pRes.causes) : pRes.causes[i].ok

\* C11: verifyVP returns true for the presentation createVP returned for a
\* non-empty list of credentials that each pass verifyVC, signed with the key
\* the holder publishes, whatever the nonce.
C11_VpRoundTrip ==
    (/\ VpVerified /\ pMade.by = "createVP" /\ pMade.key = Holder
     /\ Presented # <<>> /\ AllPass)
        => pRes.val = "true"


\* A presentation verifyVP accepted.
Accepted == VpVerified /\ pRes.val = "true"
SubjectOf(vc) == Get(vc, "subject")

\* C12: a presentation verifyVP accepts has a holder who is the subject of
\* every credential in it; with a credential of another subject it is
\* rejected.
C12_HolderIsSubject ==
    Accepted => \A i \in 1 .. Len(Presented) : SubjectOf(Presented[i]) = Str(Holder)

\* The credentials of the presentation that verifyVC refused.
Refused == {i \in 1 .. Len(pRes.causes) : ~pRes.causes[i].ok}

\* C17: when verifyVP fails on a credential whose verification failed, its
\* outcome names the cause of that failure (Revoked, Expired, ...), as the
\* outcome of verifyVC does.
C17_CauseReported ==
    (VpVerified /\ pRes.signed /\ Refused # {})
        => \E i \in Refused : pRes.val = pRes.causes[i].val


(***************************************************************************)
(* C13, C14, C16: depth, expiry and origin of a delegation chain           *)
(***************************************************************************)
\* The greatest number of chain levels of C13, below the longest chain built
\* here, and the outcome it names.
ChainLimit == MaxChain - 1
ChainTooDeep == "ChainTooDeep"

\* C13: verifyVC visits at most ChainLimit levels of a chain: on a deeper
\* chain it fails, and with ChainTooDeep when the own checks of the levels it
\* visits pass.
C13_DepthBounded ==
    (Verified /\ Len(Chain) > ChainLimit)
        => /\ ~vRes.ok
           /\ OwnChecksPass(ChainLimit) => vRes = Thrown(ChainTooDeep)

\* createDelegatedVC has just returned the credential at hand.
Delegated == vOut.ok /\ vOut.op = "createDelegatedVC"
ParentExpiry == Get(Chain[2], "expirationDate")
ChildExpiry == Get(vVc, "expirationDate")

\* C14: the credential createDelegatedVC returns for a parent with an
\* expirationDate has an expirationDate not later than the parent's: the
\* parent's when none is passed, the passed one only when it is earlier.
C14_ExpiryCapped ==
    (Delegated /\ IsDate(ParentExpiry))
        => /\ IsDate(ChildExpiry)
           /\ Day(ChildExpiry) <= Day(ParentExpiry)
           /\ ChildExpiry = IF IsDate(vOut.asked) /\ Day(vOut.asked) < Day(ParentExpiry)
                            THEN vOut.asked ELSE ParentExpiry

\* getPublickeyIssuerFromVC has returned or thrown.
Looked == vChain # NotRun

\* C16: the didOri getPublickeyIssuerFromVC returns is the subject of the
\* root credential of the chain, whatever the length of the chain.
C16_OriginIsRoot ==
    (Looked /\ vChain.ok) => vChain.didOri = Get(Chain[Len(Chain)], "subject")

\* C15: getPublickeyIssuerFromVC checks neither revocation nor dates: it
\* succeeds on a chain on which it succeeds when nothing is revoked, whatever
\* is revoked and whatever the day.
C15_NoRevocationNoDates ==
    (Looked /\ vChain.clear) => vChain.ok


(***************************************************************************)
(* Revocation (vc/index.ts revokeVC)                                       *)
(***************************************************************************)
NoStatus == "Revoke VC: VC doesn't have credentialStatus"
RevokeUnsupported == "NotImplemented"

\* revokeVCFromIssuer(issuerDid, index, privateKey): the revoke of the DID
\* method of the issuer, which sets the bit and republishes on its own; here
\* it answers with a document or throws, as the method chooses.
revokeVCFromIssuer(issuerDid, index, privateKey, answers) ==
    IF answers THEN [ok |-> TRUE, val |-> "document"] ELSE Thrown(RevokeUnsupported)

\* revokeVC(vc, privateKey): what it returns or throws, and the calls of
\* revokeVCFromIssuer it makes.
revokeVC(vc, privateKey, answers) ==
    IF Falsy(Get(vc, "credentialStatus"))
    THEN [ok |-> FALSE, val |-> NoStatus, calls |-> <<>>]
    ELSE LET index == Get(Get(vc, "credentialStatus"), "revocationBitmapIndex")
             out == revokeVCFromIssuer(Get(vc, "issuer"), index, privateKey, answers)
         IN  [ok |-> out.ok, val |-> out.val,
              calls |-> <<[did |-> Get(vc, "issuer"), index |-> index, key |-> privateKey.x]>>]

\* The greatest number of calls of the DID method's revoke that are logged.
MaxRevokes == 2

\* The credentials an owner asks to revoke: without credentialStatus, with a
\* null one, with index 5 or 6, with a negative index, with an index that is
\* not an integer, and with a credentialStatus without index.
Revocables ==
    { HeldRoot, SetProp(HeldRoot, "credentialStatus", Null) }
    \cup { SetProp(HeldRoot, "credentialStatus", revocationStatus(DidA, index)) :
             index \in {Num("5"), Num("6"), Num("-1"), Num("1.5"), Undefined} }

RevokeInit ==
    /\ rLog = <<>> /\ rOut = NotRun
    /\ BitIdle
    /\ CanonIdle /\ UrlIdle /\ WebIdle /\ VcIdle /\ VpIdle

\* An owner calls revokeVC; rLog keeps the calls the DID method received.
RevokeVC(vc, privateKey, answers) ==
    /\ rOut = NotRun
    /\ Len(rLog) < MaxRevokes
    /\ LET out == revokeVC(vc, privateKey, answers)
       IN  /\ rLog' = rLog \o out.calls
           /\ rOut' = [ok |-> out.ok, val |-> out.val, calls |-> out.calls,
                       status |-> Get(vc, "credentialStatus"),
                       issuer |-> Get(vc, "issuer"), key |-> privateKey.x]
    /\ UNCHANGED <<canonVars, urlVars, webVars, vcVars, vpVars, bitVars>>

\* The owner has taken the outcome.
DismissRevoke ==
    /\ rOut # NotRun
    /\ rOut' = NotRun
    /\ UNCHANGED <<rLog, canonVars, urlVars, webVars, vcVars, vpVars, bitVars>>

RevokeNext ==
    \/ \E vc \in Revocables, key \in {PrivateJwk(DidA), PrivateJwk(DidB)}, answers \in BOOLEAN :
            RevokeVC(vc, key, answers)
    \/ DismissRevoke
SpecRevoke == RevokeInit /\ [][RevokeNext]_vars

\* A revocationBitmapIndex that is a non-negative integer.
ValidIndex(index) == IsIndex(index)
AskedIndex == Get(rOut.status, "revocationBitmapIndex")

\* C18: revokeVC calls the revoke of the DID method only after validation:
\* without credentialStatus, or with an index that is negative or not an
\* integer, it fails and makes no call; otherwise it makes exactly one call,
\* with the issuer, the index and the private key.
C18_RevokeAfterValidation ==
    rOut # NotRun
        => IF Falsy(rOut.status) \/ ~ValidIndex(AskedIndex)
           THEN ~rOut.ok /\ rOut.calls = <<>>
           ELSE rOut.calls = <<[did |-> rOut.issuer, index |-> AskedIndex, key |-> rOut.key]>>


(***************************************************************************)
(* C19: what didWeb.resolve returns and caches                             *)
(***************************************************************************)
\* A JSON object whose id is the string of the DID.
DocumentOf(doc, did) == doc.t = "obj" /\ Get(doc, "id") = Str(Text(did))

\* A call that returns, returns a document of its DID.
ReturnsDocumentOfDid == (Finished /\ wLast.ok) => DocumentOf(wLast.val, wLast.did)

\* Every document in the cache is a document of the DID it is stored under.
CachesDocumentOfDid ==
    \A did \in WebDids : wCache[did] # <<>> => DocumentOf(wCache[did][1].doc, did)

\* A call that fails on the body it has read leaves the cache as it was.
FailureKeepsCache ==
    \A c \in CallIds :
        (wCalls[c].pc = "json" /\ wCalls'[c].pc = "idle" /\ ~wLast'.ok) => wCache' = wCache

Aborted(c) ==
    /\ wCalls[c].pc \in {"https", "http"}
    /\ IF wCalls[c].pc = "https"
       THEN /\ wCalls' = [wCalls EXCEPT ![c] =
                    [@ EXCEPT !.pc = "http",
                              !.fetches = Append(@, didWebToUrl(wCalls[c].did, "http").val)]]
            /\ UNCHANGED wLast
       ELSE /\ wLast' = Done(wCalls[c], FALSE, Str("This operation was aborted"))
            /\ wCalls' = [wCalls EXCEPT ![c] = Idle]
    /\ UNCHANGED <<wNow, wFetchFn, wCache, wStored, canonVars, urlVars, vcVars, vpVars, revVars>>

\* The server answers, fails or stays silent as it likes; a timer that runs
\* fires.
TimedNext ==
    \/ WebNext
    \/ \E c \in CallIds : Aborted(c)
SpecWebTimed ==
    /\ WebInit
    /\ [][TimedNext]_vars
    /\ \A c \in CallIds : WF_vars(Aborted(c))

\* C20: every call of didWeb.resolve eventually returns or throws, whatever
\* the server does.
C20_ResolveEnds ==
    \A c \in CallIds : (wCalls[c].pc # "idle") ~> (wCalls[c].pc = "idle")

\* Every pending fetch of a call ends: with a response, or by throwing.
FetchEnds ==
    \A c \in CallIds : (wCalls[c].pc \in {"https", "http"}) ~> (wCalls[c].pc \in {"json", "idle"})


(***************************************************************************)
(* C21: the order of the steps of verifyVC                                 *)
(***************************************************************************)
\* The ways a credential handed to a verifier is out of order: without its
\* proof, with an issuer no document is published for, with a verification
\* method the issuer does not publish, with another subject than the signed
\* one, and with a credentialStatus that names index 5 of its issuer.
Disorders == {"status", "subject", "method", "issuer", "proof"}
Disordered(vc, ds) ==
    LET withStatus == IF "status" \in ds
            THEN SetProp(vc, "credentialStatus", revocationStatus(Get(vc, "issuer").v, Num("5")))
            ELSE vc
        withSubject == IF "subject" \in ds THEN SetProp(withStatus, "subject", Str(DidA))
                       ELSE withStatus
        withMethod == IF "method" \in ds
            THEN SetProp(withSubject, "proof",
                         SetProp(Get(withSubject, "proof"), "verificationMethod", Str("did:web:a#none")))
            ELSE withSubject
        withIssuer == IF "issuer" \in ds THEN SetProp(withMethod, "issuer", Str("did:web:z"))
                      ELSE withMethod
    IN  IF "proof" \in ds THEN RemoveProp(withIssuer, "proof") ELSE withIssuer

\* Parents issued to DidB that expire on the second day, in or out of order.
OrderParents == {Disordered(HeldExpiring, ds) : ds \in {{}} \cup {{d} : d \in Disorders}}

\* The credential DidB signs around a parent for DidC, expiring with it.
Around(parentVC) ==
    createVC(Params(Str(DidB), Str(DidC), Undefined, Str(toISOString(2)),
                    Obj(0, <<P("a", Str("x")), P("parentVC", parentVC)>>), Undefined, Undefined),
             PrivateJwk(DidB), 1).val

OrderInputs ==
    {Disordered(HeldExpiring, ds) : ds \in SUBSET Disorders}
    \cup {Disordered(Around(parentVC), ds) : parentVC \in OrderParents, ds \in SUBSET Disorders}

OrderInit ==
    /\ vNow = 1
    /\ vBits = NoBits
    /\ vVc \in OrderInputs
    /\ vMade = Unmade
    /\ vOut = NotRun /\ vRes = NotRun /\ vSteps = NoSteps /\ vChain = NotRun
    /\ vTrace = NoSteps
    /\ CanonIdle /\ UrlIdle /\ WebIdle /\ VpIdle /\ RevIdle

OrderNext ==
    \/ \E did \in {DidA, DidB} : PublishRevoked(did, 5)
    \/ NextDay
    \/ VerifyVC
    \/ Dismiss
SpecOrder == OrderInit /\ [][OrderNext]_vars

\* A step can be judged on a credential by itself: the key when the issuer
\* resolves and there is a proof, the signature when the key is found, the
\* revocation when the issuer resolves.
Judged(vc, step) ==
    CASE step = "key" -> StepOutcome(vc, "issuer", vNow, vBits).ok /\ Truthy(Get(vc, "proof"))
      [] step = "signature" ->
            /\ StepOutcome(vc, "issuer", vNow, vBits).ok /\ Truthy(Get(vc, "proof"))
            /\ StepOutcome(vc, "key", vNow, vBits).ok
      [] step = "revocation" -> StepOutcome(vc, "issuer", vNow, vBits).ok
      [] OTHER -> TRUE

\* The checks a credential fails, each judged by itself, and the first of
\* them in the order of the steps.
Flaws(vc) ==
    {i \in 1 .. Len(StepNames) :
        Judged(vc, StepNames[i]) /\ ~StepOutcome(vc, StepNames[i], vNow, vBits).ok}
FirstFlaw(vc) == StepNames[CHOOSE i \in Flaws(vc) : \A j \in Flaws(vc) : i <= j]

\* No step runs on a parentVC before every step of the credential that
\* embeds it has run and passed.
GatedByChild ==
    \A i \in 1 .. Len(vTrace) :
        vTrace[i].level > 1 =>
            \A n \in 1 .. Len(StepNames) :
                \E j \in 1 .. i - 1 :
                    /\ vTrace[j].level = vTrace[i].level - 1
                    /\ vTrace[j].step = StepNames[n]
                    /\ vTrace[j].ok

\* The failure reported is the first flaw of the first flawed credential,
\* and it is the last step that ran.
FirstFlawReported ==
    \A k \in 1 .. Len(Chain) :
        (Flaws(Chain[k]) # {} /\ \A j \in 1 .. k - 1 : Flaws(Chain[j]) = {})
            => /\ vTrace[Len(vTrace)].level = k
               /\ vTrace[Len(vTrace)].step = FirstFlaw(Chain[k])
               /\ ~vTrace[Len(vTrace)].ok
               /\ vRes = Thrown(vTrace[Len(vTrace)].val)

\* C21: verifyVC is sequential and fail-fast: no step runs on a parentVC
\* unless the proof, issuer, key, signature, revocation and metadata steps of
\* the credential embedding it have all passed, and a credential that fails
\* several checks at once is reported with the first of them in that order.
C21_FailFast == Verified => GatedByChild /\ FirstFlawReported

\* verifyVC has reported the invalid signature of a credential that is also
\* revoked and expired and whose parentVC is out of order too; no step ran
\* on the parentVC.
C21_Witness ==
    /\ Verified /\ Len(Chain) = 2
    /\ {4, 5, 6} \subseteq Flaws(Chain[1])
    /\ Flaws(Chain[2]) # {}
    /\ vRes = Thrown(SignatureInvalid)
    /\ \A i \in 1 .. Len(vTrace) : vTrace[i].level = 1


(***************************************************************************)
(* C22: claims with nested objects                                         *)
(***************************************************************************)
\* The claims of a root whose claim b holds an object in an object.
Inner == Obj(2, <<P("y", Str("1")), P("a", Str("1"))>>)
NestedRootClaims == Obj(0, <<P("a", Str("x")), P("b", Obj(1, <<P("x", Inner)>>))>>)
NestedRootParams ==
    {Params(Str(DidA), Str(DidB), Undefined, expirationDate, NestedRootClaims, Undefined, Undefined) :
        expirationDate \in {Undefined, Str(toISOString(2)), Str(toISOString(3))}}

\* The claims asked of such a root: a primitive, objects of their own that
\* equal the root's or are subsets of it or are not, and the root's own
\* objects.
NestedClaims(parentVC) ==
    { Obj(0, <<P("a", Str("x"))>>),
      Obj(0, <<P("b", Obj(0, <<>>))>>),
      Obj(0, <<P("b", Obj(0, <<P("x", Obj(0, <<P("y", Str("1")), P("a", Str("1"))>>))>>))>>),
      Obj(0, <<P("b", Obj(0, <<P("x", Obj(0, <<P("y", Str("1"))>>))>>))>>),
      Obj(0, <<P("b", Obj(0, <<P("x", Obj(0, <<P("y", Str("2"))>>))>>))>>),
      Obj(0, <<P("b", Obj(0, <<P("x", Get(Get(Get(parentVC, "credentialSubject"), "b"), "x"))>>))>>),
      Obj(0, <<P("b", Get(Get(parentVC, "credentialSubject"), "b"))>>) }

\* JSON.parse(JSON.stringify(value)): every object of the value is an object
\* of its own.
RECURSIVE Reparsed(_)
Reparsed(value) ==
    IF value.t = "obj"
    THEN Obj(0, [i \in 1 .. Len(value.props) |-> P(value.props[i].k, Reparsed(value.props[i].v))])
    ELSE IF value.t = "arr"
    THEN Arr(0, [i \in 1 .. Len(value.elems) |-> Reparsed(value.elems[i])])
    ELSE value

\* The holder of a root signs by createVC a credential around the root as
\* it was received, with claims of its choice.
NestedWrappingParams(parentVC) ==
    {Params(Str(DidB), Str(DidC), Undefined, Undefined,
            SetProp(claims, "parentVC", Reparsed(parentVC)), Undefined, Undefined) :
        claims \in NestedClaims(Reparsed(parentVC))}

NestedNext ==
    \/ \E params \in NestedRootParams : vVc = Undefined /\ CreateVC(params, PrivateJwk(DidA))
    \/ /\ vNow = 1 /\ Depth(vVc) = 1
       /\ \E claims \in NestedClaims(vVc) :
            CreateDelegatedVC(vVc, Str(DidC), claims, PrivateJwk(DidB), Undefined, Undefined)
    \/ /\ vNow = 1 /\ Depth(vVc) = 1
       /\ \E params \in NestedWrappingParams(vVc) : CreateVC(params, PrivateJwk(DidB))
    \/ vVc # Undefined /\ NextDay
    \/ VerifyVC
    \/ Dismiss
SpecNested == SingleInit /\ [][NestedNext]_vars

\* C22: a claim whose value holds a nested object that equals the parent's
\* nested object or is a recursive subset of it, and is an object of its own,
\* is accepted by createDelegatedVC and by verifyVC.
C22_NestedSubset ==
    /\ (/\ vOut # NotRun /\ vOut.op = "createDelegatedVC"
        /\ vOut.proved /\ vOut.narrowed /\ vOut.nested)
            => vOut.ok
    /\ (/\ Verified /\ Len(Chain) = 2 /\ NestedClaim(Get(Chain[1], "credentialSubject"))
        /\ vSteps[1].own /\ vSteps[1].parent /\ ~Foreign(1) /\ NarrowedAt(1))
            => vRes = Ok


(***************************************************************************)
(* C23: the fetches of one call of didWeb.resolve                          *)
(***************************************************************************)
\* The URLs a call has fetched so far.
Fetched(call) == IF call.pc = "idle" THEN <<>> ELSE call.fetches

\* The fetches a call may have made: none, the https URL of its DID, or the
\* https URL and then the http URL.
Attempts(did, fetches) ==
    \/ fetches = <<>>
    \/ fetches = <<didWebToUrl(did, "https").val>>
    \/ fetches = <<didWebToUrl(did, "https").val, didWebToUrl(did, "http").val>>

AtMostTwoFetches ==
    /\ Finished => Attempts(wLast.did, wLast.fetches)
    /\ \A c \in CallIds :
        wCalls[c].pc # "idle" => Attempts(wCalls[c].did, wCalls[c].fetches)

\* A step of a call fetches only as its first fetch, over https, or as the
\* fetch over http that follows the https fetch that threw.
FetchesInOrder(c) ==
    Fetched(wCalls'[c]) # Fetched(wCalls[c]) /\ wCalls'[c].pc # "idle" =>
        \/ /\ wCalls[c].pc = "idle" /\ wCalls'[c].pc = "https"
           /\ wCalls'[c].fetches = <<didWebToUrl(wCalls'[c].did, "https").val>>
        \/ /\ wCalls[c].pc = "https" /\ wCalls'[c].pc = "http"
           /\ wCalls'[c].fetches =
                Append(wCalls[c].fetches, didWebToUrl(wCalls[c].did, "http").val)

\* A call that awaits its http fetch fetches nothing more.
HttpNotRetried(c) ==
    wCalls[c].pc = "http" =>
        /\ wCalls'[c].pc \in {"http", "json", "idle"}
        /\ wCalls'[c].pc # "idle" => wCalls'[c].fetches = wCalls[c].fetches

\* A call whose http fetch throws fails and leaves the cache as it was.
BothFailedStoresNothing(c) ==
    (wCalls[c].pc = "http" /\ wCalls'[c].pc = "idle") =>
        /\ ~wLast'.ok
        /\ wLast'.did = wCalls[c].did
        /\ wLast'.fetches = wCalls[c].fetches
        /\ wCache' = wCache

\* C23: a call of didWeb.resolve that misses the cache makes at most two
\* fetches, the first over https and a second over http only after the https
\* fetch has thrown; the http fetch is not tried again, and when it fails
\* too the call fails and stores nothing in the cache.
C23_TwoAttempts ==
    /\ []AtMostTwoFetches
    /\ [][\A c \in CallIds :
            FetchesInOrder(c) /\ HttpNotRetried(c) /\ BothFailedStoresNothing(c)]_vars

\* A call that missed the cache has failed after its https fetch and its
\* http fetch both threw, and the cache holds nothing for its DID.
C23_Witness ==
    /\ Finished /\ ~wLast.ok /\ wLast.val = Str("fetch failed")
    /\ wLast.fetches = <<HttpsUrl, HttpUrl>>
    /\ wCache[wLast.did] = <<>>


(***************************************************************************)
(* C24: the bitmaps of isRevokedFromServiceEndpoint                        *)
(***************************************************************************)
MaxChecks == 3
CheckIds == 1 .. 2

\* Payloads pako cannot inflate, and that inflate to bytes that are not a
\* serialized bitmap.
BadInflate == "!"
BadRoaring == "?"
CheckedEndpoints ==
    {"x", EndpointPrefix, EndpointPrefix \o BadInflate, EndpointPrefix \o BadRoaring,
     EndpointPrefix \o BitString({}, 0), EndpointPrefix \o BitString({5}, 0)}
CheckedIndexes == {5, 6}

\* inflate(base64ToUint8Array(base64))
inflate(base64) ==
    IF base64 = BadInflate THEN [ok |-> FALSE, val |-> "incorrect header check"]
    ELSE [ok |-> TRUE, val |-> base64]

\* RoaringBitmap32.deserialize(uncompressed, SerializationFormat.portable):
\* a new bitmap on the heap, or a throw.
deserialize(heap, uncompressed) ==
    IF uncompressed = BadRoaring
    THEN [ok |-> FALSE, heap |-> heap, bitmap |-> 0]
    ELSE [ok |-> TRUE, bitmap |-> Len(heap) + 1,
          heap |-> Append(heap, [bits |-> uncompressed, disposed |-> FALSE])]

\* bitmap.has(index)
has(heap, bitmap, index) ==
    /\ index + 1 <= Len(heap[bitmap].bits)
    /\ SubSeq(heap[bitmap].bits, index + 1, index + 1) = "1"

\* bitmap.dispose?.()
dispose(heap, bitmap) == [heap EXCEPT ![bitmap].disposed = TRUE]

\* A check of a mutant that disposes of the bitmap after has(index) returned,
\* without finally.
CheckBitmapNoFinally(heap, uncompressed, index, hasThrows) ==
    LET made == deserialize(heap, uncompressed)
    IN  IF ~made.ok
        THEN [ok |-> FALSE, val |-> "deserialize", bitmap |-> 0, heap |-> heap]
        ELSE IF hasThrows
        THEN [ok |-> FALSE, val |-> "has", bitmap |-> made.bitmap, heap |-> made.heap]
        ELSE [ok |-> TRUE, bitmap |-> made.bitmap,
              val |-> IF has(made.heap, made.bitmap, index) THEN "true" ELSE "false",
              heap |-> dispose(made.heap, made.bitmap)]

\* isRevokedFromServiceEndpoint from the deserialization to its end:
\* deserialize, then try { return bitmap.has(index) } finally { dispose }.
\* hasThrows: whether the library's has throws.
CheckBitmap(heap, uncompressed, index, hasThrows) ==
    LET made == deserialize(heap, uncompressed)
    IN  IF ~made.ok
        THEN [ok |-> FALSE, val |-> "deserialize", bitmap |-> 0, heap |-> heap]
        ELSE IF hasThrows
        THEN [ok |-> FALSE, val |-> "has", bitmap |-> made.bitmap,
              heap |-> dispose(made.heap, made.bitmap)]
        ELSE [ok |-> TRUE, bitmap |-> made.bitmap,
              val |-> IF has(made.heap, made.bitmap, index) THEN "true" ELSE "false",
              heap |-> dispose(made.heap, made.bitmap)]

BitmapInit ==
    /\ bInit = ""
    /\ bCalls = [c \in CheckIds |-> Idle]
    /\ bHeap = <<>>
    /\ bOut = NotRun
    /\ rLog = <<>> /\ rOut = NotRun
    /\ CanonIdle /\ UrlIdle /\ WebIdle /\ VcIdle /\ VpIdle

CheckThrown(val) == [ok |-> FALSE, val |-> val, bitmap |-> 0]

\* isRevokedFromServiceEndpoint(serviceEndpoint, index) up to its await: the
\* prefix, the payload, inflate, and ensureRoaringInitialized(), which
\* starts roaringLibraryInitialize() unless a call before has.
IsRevokedFromServiceEndpoint(c, serviceEndpoint, index) ==
    /\ bCalls[c].pc = "idle"
    /\ Len(bHeap) < MaxChecks
    /\ LET base64 == After(serviceEndpoint, EndpointPrefix)
           uncompressed == inflate(base64)
       IN  IF ~HasPrefix(serviceEndpoint, EndpointPrefix) THEN
                /\ bOut' = CheckThrown("serviceEndpoint format")
                /\ UNCHANGED <<bInit, bCalls>>
           ELSE IF base64 = "" THEN
                /\ bOut' = CheckThrown("serviceEndpoint payload")
                /\ UNCHANGED <<bInit, bCalls>>
           ELSE IF ~uncompressed.ok THEN
                /\ bOut' = CheckThrown(uncompressed.val)
                /\ UNCHANGED <<bInit, bCalls>>
           ELSE /\ bInit' = IF bInit = "" THEN "pending" ELSE bInit
                /\ bCalls' = [bCalls EXCEPT ![c] =
                        [pc |-> "init", uncompressed |-> uncompressed.val, index |-> index]]
                /\ UNCHANGED bOut
    /\ UNCHANGED <<bHeap, rLog, rOut, canonVars, urlVars, webVars, vcVars, vpVars>>

\* roaringLibraryInitialize() settles; roaringInitPromise keeps the outcome.
InitSettles(ready) ==
    /\ bInit = "pending"
    /\ bInit' = IF ready THEN "ready" ELSE "failed"
    /\ UNCHANGED <<bCalls, bHeap, bOut, rLog, rOut, canonVars, urlVars, webVars, vcVars, vpVars>>

\* The await of ensureRoaringInitialized() ends: it throws, or the call runs
\* to its end without another await.
Initialized(c, hasThrows) ==
    /\ bCalls[c].pc = "init"
    /\ bInit \in {"ready", "failed"}
    /\ bCalls' = [bCalls EXCEPT ![c] = Idle]
    /\ IF bInit = "failed"
       THEN bOut' = CheckThrown("roaring init") /\ UNCHANGED bHeap
       ELSE LET out == CheckBitmap(bHeap, bCalls[c].uncompressed, bCalls[c].index, hasThrows)
            IN  /\ bHeap' = out.heap
                /\ bOut' = [ok |-> out.ok, val |-> out.val, bitmap |-> out.bitmap]
    /\ UNCHANGED <<bInit, rLog, rOut, canonVars, urlVars, webVars, vcVars, vpVars>>

BitmapNext ==
    \/ \E c \in CheckIds, serviceEndpoint \in CheckedEndpoints, index \in CheckedIndexes :
            IsRevokedFromServiceEndpoint(c, serviceEndpoint, index)
    \/ \E ready \in BOOLEAN : InitSettles(ready)
    \/ \E c \in CheckIds, hasThrows \in BOOLEAN : Initialized(c, hasThrows)
SpecBitmap == BitmapInit /\ [][BitmapNext]_vars

\* C24: every bitmap isRevokedFromServiceEndpoint has deserialized is
\* disposed of when the call ends, whether it returns or throws; while no
\* call is running between its deserialization and its end, no bitmap is
\* left that is not disposed of.
C24_BitmapsDisposed ==
    \A i \in 1 .. Len(bHeap) : bHeap[i].disposed

\* A check has thrown from has(index) after it deserialized a bitmap, and
\* another has returned before it.
C24_Witness ==
    /\ bOut # NotRun /\ ~bOut.ok /\ bOut.val = "has"
    /\ bOut.bitmap > 1
    /\ bHeap[bOut.bitmap].disposed


(***************************************************************************)
(* C25: DidCache                                                           *)
(***************************************************************************)
\* The lifetimes entries are set with: one that has passed when it is set,
\* none, half the TTL of did:web and that TTL.
Ttls == {0 - TickMs, 0, TickMs, cacheTtlMs}
CachedDocs(did) == {DidDoc(did, "x"), DidDoc(did, "y")}

\* wStored keeps, per DID, the document, the time and the lifetime of the
\* most recent set; wLast the get that ended last, with the map before it.
CacheInit ==
    /\ wNow = 0
    /\ wFetchFn = FALSE
    /\ wCache = [did \in WebDids |-> <<>>]
    /\ wCalls = <<>>
    /\ wStored = [did \in WebDids |-> <<>>]
    /\ wLast = NotFinished
    /\ CanonIdle /\ UrlIdle /\ VcIdle /\ VpIdle /\ RevIdle

DidCacheSet(did, doc, ttlMs) ==
    /\ wLast = NotFinished
    /\ wCache' = CacheSet(wCache, did, doc, ttlMs, wNow)
    /\ wStored' = [wStored EXCEPT ![did] = <<[doc |-> doc, at |-> wNow, ttlMs |-> ttlMs]>>]
    /\ UNCHANGED <<wNow, wFetchFn, wCalls, wLast, canonVars, urlVars, vcVars, vpVars, revVars>>

DidCacheGet(did) ==
    /\ wLast = NotFinished
    /\ wCache' = CacheGet(wCache, did, wNow).cache
    /\ wLast' = [did |-> did, doc |-> CacheGet(wCache, did, wNow).doc, before |-> wCache]
    /\ UNCHANGED <<wNow, wFetchFn, wCalls, wStored, canonVars, urlVars, vcVars, vpVars, revVars>>

DidCacheDelete(did) ==
    /\ wLast = NotFinished
    /\ wCache' = CacheDelete(wCache, did)
    /\ UNCHANGED <<wNow, wFetchFn, wCalls, wStored, wLast, canonVars, urlVars, vcVars, vpVars, revVars>>

DidCacheClear ==
    /\ wLast = NotFinished
    /\ wCache' = CacheClear(wCache)
    /\ UNCHANGED <<wNow, wFetchFn, wCalls, wStored, wLast, canonVars, urlVars, vcVars, vpVars, revVars>>

\* The caller has taken what get returned.
TakeDoc ==
    /\ wLast # NotFinished
    /\ wLast' = NotFinished
    /\ UNCHANGED <<wNow, wFetchFn, wCache, wCalls, wStored, canonVars, urlVars, vcVars, vpVars, revVars>>

\* Date.now() advances between two operations.
ClockAdvances ==
    /\ wLast = NotFinished
    /\ wNow < MaxTicks * TickMs
    /\ wNow' = wNow + TickMs
    /\ UNCHANGED <<wFetchFn, wCache, wCalls, wStored, wLast, canonVars, urlVars, vcVars, vpVars, revVars>>

CacheNext ==
    \/ \E did \in WebDids, ttlMs \in Ttls : \E doc \in CachedDocs(did) : DidCacheSet(did, doc, ttlMs)
    \/ \E did \in WebDids : DidCacheGet(did) \/ DidCacheDelete(did)
    \/ DidCacheClear
    \/ TakeDoc
    \/ ClockAdvances
SpecCache == CacheInit /\ [][CacheNext]_vars

Got == wLast # NotFinished
\* The entry get found in the map, <<>> if none, and the most recent set.
Found == wLast.before[wLast.did]
LastSet == wStored[wLast.did]
PastExpiry(entry) == wNow > entry.expires

\* C25: get(did) returns no document whose expiry, the time of its set plus
\* its lifetime, has passed; a get that finds an expired entry removes it
\* and returns null; a get that finds an entry that has not expired returns
\* the document of the most recent set for the DID and leaves the map as it
\* was; a get that finds no entry returns null.
C25_GetFresh ==
    Got =>
        /\ wLast.doc # Null =>
            /\ LastSet # <<>>
            /\ wNow <= LastSet[1].at + LastSet[1].ttlMs
        /\ IF Found = <<>> THEN wLast.doc = Null /\ wCache = wLast.before
           ELSE IF PastExpiry(Found[1])
           THEN /\ wLast.doc = Null
                /\ wCache = [wLast.before EXCEPT ![wLast.did] = <<>>]
           ELSE /\ wLast.doc = LastSet[1].doc
                /\ wCache = wLast.before

\* A get has found an expired entry and removed it while the entry of the
\* other DID stays in the map.
C25_Witness ==
    /\ Got /\ Found # <<>> /\ PastExpiry(Found[1])
    /\ wCache[wLast.did] = <<>>
    /\ \E did \in WebDids : wCache[did] # <<>>


(***************************************************************************)
(* C26: credentialSubject.id                                               *)
(***************************************************************************)
\* Roots whose credentialSubject has no id key, the id of the subject, or
\* the id of another holder.
IdRootParams ==
    {Params(Str(DidA), Str(DidB), Undefined, expirationDate, credentialSubject, Undefined, Undefined) :
        expirationDate \in {Undefined, Str(toISOString(2))},
        credentialSubject \in
            { Obj(0, <<P("a", Str("x"))>>),
              Obj(0, <<P("id", Str(DidB)), P("a", Str("x"))>>),
              Obj(0, <<P("id", Str(DidC)), P("a", Str("x"))>>) }}

\* The claims asked of such a root: without an id key, with the id the
\* parent's credentialSubject has, and with the id of a holder.
IdClaims(parentVC) ==
    { Obj(0, <<P("a", Str("x"))>>),
      Obj(0, <<P("id", Get(Get(parentVC, "credentialSubject"), "id"))>>),
      Obj(0, <<P("id", Str(DidC)), P("a", Str("x"))>>),
      Obj(0, <<P("id", Str(DidA))>>) }

SubjectNext ==
    \/ \E params \in IdRootParams : vVc = Undefined /\ CreateVC(params, PrivateJwk(DidA))
    \/ /\ vNow = 1 /\ Depth(vVc) = 1
       /\ \E claims \in IdClaims(vVc), childSubject \in {DidA, DidC} :
            CreateDelegatedVC(vVc, Str(childSubject), claims, PrivateJwk(DidB), Undefined, Undefined)
    \/ vVc # Undefined /\ NextDay
    \/ VerifyVC
    \/ Dismiss
SpecSubject == SingleInit /\ [][SubjectNext]_vars

\* C26: every credential createVC or createDelegatedVC returns has the
\* subject of the credential as its credentialSubject.id, whatever the
\* claims.
C26_SubjectId ==
    (vOut # NotRun /\ vOut.ok) =>
        Get(Get(vVc, "credentialSubject"), "id") = Get(vVc, "subject")


(***************************************************************************)
(* C27: canonicalize and objects referenced twice                          *)
(***************************************************************************)
\* C27: canonicalize throws "Circular reference" only for a value that
\* contains itself; a value in which one object is referenced from two
\* places without a cycle gives the string of the equal value built from
\* separate copies.
C27_SharedNotCircular ==
    cOutA # NotRun =>
        /\ cOutA = [ok |-> FALSE, val |-> CircularReference] => ContainsItself(cA)
        /\ ~ContainsItself(cA) => cOutA = canonicalize(Reparsed(cA))


(***************************************************************************)
(* C28: delegation and verification                                        *)
(***************************************************************************)
\* What the subject of the credential at hand asks createDelegatedVC for,
\* with its own key: claims of the parent, a prefix of its array, its id, a
\* claim the parent has not, for one of two holders, with an expirationDate
\* or without, with a revocationBitmapIndex or without. From a delegated
\* credential on, the claim a or the id, without an expirationDate.
Asks(parentVC) ==
    IF Depth(parentVC) = 1
    THEN {[claims |-> claims, childSubject |-> childSubject,
           expirationDate |-> expirationDate, revocationBitmapIndex |-> index] :
            claims \in { Obj(0, <<P("a", Str("x"))>>),
                         Obj(0, <<P("a", Str("y"))>>),
                         Obj(0, <<P("roles", Arr(0, <<Str("x")>>))>>),
                         Obj(0, <<P("id", Get(Get(parentVC, "credentialSubject"), "id"))>>) },
            childSubject \in {Str(DidC), Str(DidA)},
            expirationDate \in {Undefined, Str(toISOString(8))},
            index \in {Undefined, Num("5")}}
    ELSE {[claims |-> claims, childSubject |-> Str(DidB),
           expirationDate |-> Undefined, revocationBitmapIndex |-> index] :
            claims \in { Obj(0, <<P("a", Str("x"))>>),
                         Obj(0, <<P("id", Get(Get(parentVC, "credentialSubject"), "id"))>>) },
            index \in {Undefined, Num("5")}}

\* A root is issued, its subject delegates, the subject of the delegated
\* credential delegates again, and the credential at hand is verified on the
\* day it was made.
DelegateNext ==
    \/ \E params \in RootParams :
            vVc = Undefined /\ CreateVC(params, PrivateJwk(params.issuer.v))
    \/ /\ Depth(vVc) \in 1 .. MaxChain - 1
       /\ \E ask \in Asks(vVc) :
            CreateDelegatedVC(vVc, ask.childSubject, ask.claims,
                              PrivateJwk(Get(vVc, "subject").v),
                              ask.expirationDate, ask.revocationBitmapIndex)
    \/ VerifyVC
    \/ Dismiss
SpecDelegate == SingleInit /\ [][DelegateNext]_vars

\* C28: a credential createDelegatedVC returned for a parent verifyVC
\* accepts, signed with the key of the parent's subject, is accepted by
\* verifyVC, whatever the length of the chain of delegations.
C28_DelegationVerifies ==
    (/\ Verified /\ Len(Chain) >= 2
     /\ vMade.by = "createDelegatedVC" /\ vMade.altered = ""
     /\ vSteps[1].parent)
        => vRes = Ok


(***************************************************************************)
(* C29: overlapping calls of didWeb.resolve                                *)
(***************************************************************************)
\* A call that awaits missed the cache when it started, and left no entry for
\* its DID in it: a document the cache holds for the DID while the call
\* awaits was fetched and stored by a call that overlaps with it.
FetchedMeanwhile(c) == wCache[wCalls[c].did]

\* Call c returns the document it has fetched.
ReturnsFetched(c) == wCalls[c].pc = "json" /\ wCalls'[c].pc = "idle" /\ wLast'.ok

\* C29: of the calls of didWeb.resolve for one DID that overlap, at most one
\* fetches a document, and all return the same document: a call that
\* returns a document it has fetched returns it when no call has fetched one
\* for its DID meanwhile, and never another document than the one fetched
\* meanwhile.
C29_OverlapOneFetch ==
    [][\A c \in CallIds :
        ReturnsFetched(c) =>
            /\ FetchedMeanwhile(c) = <<>>
            /\ \A i \in 1 .. Len(FetchedMeanwhile(c)) :
                    FetchedMeanwhile(c)[i].doc = wLast'.val]_vars


(***************************************************************************)
(* C30: what verifyVP accepts                                              *)
(***************************************************************************)
\* The presentations a verifier is handed after somebody has damaged one:
\* without proof, without jws, with a holder that does not resolve or
\* without holder, without its credentials or with none, and with another
\* challenge or type than the signed one.
Damaged(vp) ==
    LET proof == Get(vp, "proof")
    IN  { [part |-> "proof", vp |-> RemoveProp(vp, "proof")],
          [part |-> "jws", vp |-> SetProp(vp, "proof", RemoveProp(proof, "jws"))],
          [part |-> "holder", vp |-> SetProp(vp, "holder", Str("did:web:z"))],
          [part |-> "holder", vp |-> RemoveProp(vp, "holder")],
          [part |-> "verifiableCredential", vp |-> RemoveProp(vp, "verifiableCredential")],
          [part |-> "verifiableCredential", vp |-> SetProp(vp, "verifiableCredential", Arr(0, <<>>))],
          [part |-> "challenge", vp |-> SetProp(vp, "proof", SetProp(proof, "challenge", Str("m")))],
          [part |-> "type", vp |-> SetProp(vp, "type", Arr(0, <<Str("x")>>))] }

DamageVP(damaged) ==
    /\ VpQuiet
    /\ pVp # Undefined
    /\ pMade.altered = ""
    /\ pVp' = damaged.vp
    /\ pMade' = [pMade EXCEPT !.altered = damaged.part]
    /\ UNCHANGED <<pRes, vcVars, revVars, canonVars, urlVars, webVars>>

Shown == {<<>>, <<HeldRoot>>, <<HeldRoot, HeldExpiring>>, <<HeldRevocable>>, <<HeldDelegated>>}

PresentNext ==
    \/ \E vcs \in Shown, holderDid \in Holders, nonce \in Nonces :
       \E key \in {PrivateJwk(holderDid), PrivateJwk(DidA)} :
            ReceiveVP(vcs, holderDid, key, nonce)
    \/ \E damaged \in Damaged(pVp) : DamageVP(damaged)
    \/ VpQuiet /\ PublishRevoked(DidA, 5)
    \/ VpQuiet /\ NextDay
    \/ VerifyVP
    \/ DismissVP
SpecPresent == VpInit /\ [][PresentNext]_vars

\* The jws of the presentation is the signature, by the key its holder
\* publishes, of the payload of context, type, verifiableCredential, holder
\* and challenge.
SignedByHolder ==
    LET holder == Get(pVp, "holder")
        didDoc == resolveDid(holder.v, vBits)
    IN  /\ holder.t = "str"
        /\ didDoc.ok
        /\ didDoc.val.verificationMethod # <<>>
        /\ didDoc.val.verificationMethod[1].publicKeyJwk = PublicJwk(holder.v)
        /\ Get(Get(pVp, "proof"), "jws") =
                Str(base64url(SubtleSign(PrivateJwk(holder.v), Stringify(VpPayload(pVp)))))

\* C30: verifyVP returns true only for a presentation that has a proof with
\* a jws, whose holder resolves to a document with a key under which the jws
\* is a valid signature of the rebuilt payload, that holds at least one
\* credential, and whose credentials all pass verifyVC; it returns false and
\* throws nothing otherwise.
C30_AcceptedOnlyIf ==
    VpVerified =>
        /\ pRes.ok /\ pRes.val \in {"true", "false"}
        /\ pRes.val = "true" =>
            /\ Truthy(Get(Get(pVp, "proof"), "jws"))
            /\ SignedByHolder
            /\ Get(pVp, "verifiableCredential").t = "arr"
            /\ Get(pVp, "verifiableCredential").elems # <<>>
            /\ Len(pRes.causes) = Len(Get(pVp, "verifiableCredential").elems)
            /\ AllPass

\* verifyVP has returned false for a presentation signed by its holder whose
\* second credential has expired.
C30_Witness ==
    /\ VpVerified /\ pRes.val = "false"
    /\ pMade.altered = ""
    /\ SignedByHolder
    /\ Len(pRes.causes) = 2 /\ pRes.causes[1].ok /\ ~pRes.causes[2].ok

====
